---------------------------- MODULE Spec2Model ----------------------------
(***************************************************************************)
(* Model of the PDF question-structure extractor of start-paper            *)
(* (src/src/lib/pdfParser.ts) and of the parse-pdf route that drives it.   *)
(*                                                                         *)
(* A JavaScript string is a sequence of one-character strings, so that     *)
(* the regular expressions of the source are matched character by          *)
(* character, as the engine matches them.                                  *)
(***************************************************************************)
EXTENDS Integers, Sequences, FiniteSets, Bags, TLC

(***************************************************************************)
(* Values of JavaScript.                                                   *)
(***************************************************************************)
\* `undefined` where a string is expected (a tuple that is no string of
\* the model: its one element is not a character).
Undefined == <<"undefined">>
\* `undefined` where a number is expected.
UndefinedNum == -1
\* `null`, the result of String.prototype.match when nothing matches: the
\* empty array, which match never returns.
Null == <<>>
\* The text a template literal `${v}` puts for v.
UndefinedText == <<"u","n","d","e","f","i","n","e","d">>

Digit == {"0","1","2","3","4","5","6","7","8","9"}
Lower == {"a","b","c","d","e","f","g","h","i","j","k","l","m",
          "n","o","p","q","r","s","t","u","v","w","x","y","z"}
Upper == {"A","B","C","D","E","F","G","H","I","J","K","L","M",
          "N","O","P","Q","R","S","T","U","V","W","X","Y","Z"}
\* \s of a regular expression, and what String.prototype.trim removes.
WhiteSpace == {" ","\t","\n","\r"}
\* The characters after which ^ matches under the m flag.
LineTerminator == {"\n","\r"}

DigitValue(c) ==
  CASE c = "0" -> 0 [] c = "1" -> 1 [] c = "2" -> 2 [] c = "3" -> 3
    [] c = "4" -> 4 [] c = "5" -> 5 [] c = "6" -> 6 [] c = "7" -> 7
    [] c = "8" -> 8 [] c = "9" -> 9

Min(a, b) == IF a < b THEN a ELSE b

(***************************************************************************)
(* Regular expressions.  Every expression of the source is a               *)
(* concatenation of quantified character classes, with optional ^ and $    *)
(* and capture groups that each enclose one quantified class.              *)
(***************************************************************************)
\* cls: the class; min: the least number of repetitions; many: whether
\* the class may repeat without limit (else at most once).
One(S)  == [cls |-> S, min |-> 1, many |-> FALSE]
Opt(S)  == [cls |-> S, min |-> 0, many |-> FALSE]
Star(S) == [cls |-> S, min |-> 0, many |-> TRUE]
Plus(S) == [cls |-> S, min |-> 1, many |-> TRUE]
\* A letter under the i flag.
CI(lo, up) == One({lo, up})
\* [a-z] under the i flag.
AnyLetterCI == One(Lower \cup Upper)

\* items: the quantified classes; groups: the items that are captured;
\* bol, eol: the expression starts with ^, ends with $; m, g: its flags.
RegExp(items, groups, bol, eol, m, g) ==
  [items |-> items, groups |-> groups, bol |-> bol, eol |-> eol,
   m |-> m, g |-> g]

\* How many characters of s from position p on are in class S (at most
\* one unless many).
RECURSIVE RunLen(_, _, _, _)
RunLen(S, s, p, many) ==
  IF p > Len(s) \/ s[p] \notin S THEN 0
  ELSE IF many THEN 1 + RunLen(S, s, p + 1, many) ELSE 1

\* Greedy matching with backtracking of the items k.. of re on s from
\* position p: the positions where each item starts, followed by the
\* position after the match; <<>> when there is no match.
RECURSIVE Walk(_, _, _, _)
RECURSIVE Try(_, _, _, _, _)
Walk(re, k, s, p) ==
  IF k > Len(re.items)
  THEN IF re.eol /\ p # Len(s) + 1 THEN <<>> ELSE <<p>>
  ELSE Try(re, k, s, p, RunLen(re.items[k].cls, s, p, re.items[k].many))
Try(re, k, s, p, c) ==
  IF c < re.items[k].min THEN <<>>
  ELSE LET rest == Walk(re, k + 1, s, p + c)
       IN  IF rest # <<>> THEN <<p>> \o rest ELSE Try(re, k, s, p, c - 1)

AtLineStart(re, s, p) ==
  p = 1 \/ (re.m /\ s[p - 1] \in LineTerminator)

MatchAt(re, s, p) ==
  IF re.bol /\ ~AtLineStart(re, s, p) THEN <<>> ELSE Walk(re, 1, s, p)

\* The leftmost match at or after position p (RegExp.prototype.exec).
RECURSIVE ExecFrom(_, _, _)
ExecFrom(re, s, p) ==
  IF p > Len(s) + 1 THEN <<>>
  ELSE LET b == MatchAt(re, s, p)
       IN  IF b # <<>> THEN b ELSE ExecFrom(re, s, p + 1)

Slice(s, from, to) == SubSeq(s, from, to - 1)
Matched(s, b) == Slice(s, b[1], b[Len(b)])
Capture(s, b, k) == Slice(s, b[k], b[k + 1])

\* Every match of a g expression, left to right, none overlapping.
RECURSIVE AllMatches(_, _, _)
AllMatches(re, s, p) ==
  LET b == ExecFrom(re, s, p)
  IN  IF b = <<>> THEN <<>>
      ELSE <<b>> \o AllMatches(re, s,
                      IF b[Len(b)] = b[1] THEN b[1] + 1 ELSE b[Len(b)])

\* pattern.test(s) of an expression without the g flag.
RegExpTest(re, s) == ExecFrom(re, s, 1) # <<>>

\* s.match(re): with the g flag the array of all matched substrings (no
\* capture groups); without it the first match followed by its captures;
\* null when nothing matches.
StringMatch(s, re) ==
  IF re.g
  THEN LET all == AllMatches(re, s, 1)
       IN  IF all = <<>> THEN Null
           ELSE [n \in 1..Len(all) |-> Matched(s, all[n])]
  ELSE LET b == ExecFrom(re, s, 1)
       IN  IF b = <<>> THEN Null
           ELSE <<Matched(s, b)>> \o
                [n \in 1..Len(re.groups) |-> Capture(s, b, re.groups[n])]

\* s.replace(re, ''): every match removed under the g flag, else the first.
RECURSIVE RemoveMatches(_, _, _)
RemoveMatches(s, bs, from) ==
  IF bs = <<>> THEN Slice(s, from, Len(s) + 1)
  ELSE Slice(s, from, Head(bs)[1])
         \o RemoveMatches(s, Tail(bs), Head(bs)[Len(Head(bs))])
StringReplaceEmpty(s, re) ==
  LET all == AllMatches(re, s, 1)
  IN  IF all = <<>> THEN s
      ELSE IF re.g THEN RemoveMatches(s, all, 1)
      ELSE RemoveMatches(s, <<all[1]>>, 1)

\* s.trim()
RECURSIVE TrimStart(_)
TrimStart(s) ==
  IF s # <<>> /\ Head(s) \in WhiteSpace THEN TrimStart(Tail(s)) ELSE s
RECURSIVE TrimEnd(_)
TrimEnd(s) ==
  IF s # <<>> /\ s[Len(s)] \in WhiteSpace
  THEN TrimEnd(SubSeq(s, 1, Len(s) - 1)) ELSE s
Trim(s) == TrimEnd(TrimStart(s))

\* parseInt(s) of a string of decimal digits.
RECURSIVE ParseInt(_)
ParseInt(s) ==
  IF s = <<>> THEN 0
  ELSE 10 * ParseInt(SubSeq(s, 1, Len(s) - 1)) + DigitValue(s[Len(s)])

\* a.split('\n') and a.join(sep)
RECURSIVE SplitFrom(_, _, _)
SplitFrom(s, p, acc) ==
  IF p > Len(s) THEN <<acc>>
  ELSE IF s[p] = "\n" THEN <<acc>> \o SplitFrom(s, p + 1, <<>>)
  ELSE SplitFrom(s, p + 1, Append(acc, s[p]))
Split(s) == SplitFrom(s, 1, <<>>)
RECURSIVE Join(_, _)
Join(a, sep) ==
  IF a = <<>> THEN <<>>
  ELSE IF Len(a) = 1 THEN a[1]
  ELSE a[1] \o sep \o Join(Tail(a), sep)

(***************************************************************************)
(* The pattern tables of pdfParser.ts.                                     *)
(***************************************************************************)
\* /^\s*(\d+)\s*\(([a-z])\)\.?\s+/gim
QuestionRegex1 ==
  RegExp(<<Star(WhiteSpace), Plus(Digit), Star(WhiteSpace), One({"("}),
           AnyLetterCI, One({")"}), Opt({"."}), Plus(WhiteSpace)>>,
         <<2, 5>>, TRUE, FALSE, TRUE, TRUE)
\* /^\s*(\d+)\.\s+/gm
QuestionRegex2 ==
  RegExp(<<Star(WhiteSpace), Plus(Digit), One({"."}), Plus(WhiteSpace)>>,
         <<2>>, TRUE, FALSE, TRUE, TRUE)
\* /^Question\s+(\d+)\.?\s+/gim
QuestionRegex3 ==
  RegExp(<<CI("q","Q"), CI("u","U"), CI("e","E"), CI("s","S"), CI("t","T"),
           CI("i","I"), CI("o","O"), CI("n","N"), Plus(WhiteSpace),
           Plus(Digit), Opt({"."}), Plus(WhiteSpace)>>,
         <<10>>, TRUE, FALSE, TRUE, TRUE)
\* /^Q\.?\s*(\d+)\.?\s+/gim
QuestionRegex4 ==
  RegExp(<<CI("q","Q"), Opt({"."}), Star(WhiteSpace), Plus(Digit),
           Opt({"."}), Plus(WhiteSpace)>>,
         <<4>>, TRUE, FALSE, TRUE, TRUE)
\* /^\s*\(([a-z])\)\.?\s+/gim
QuestionRegex5 ==
  RegExp(<<Star(WhiteSpace), One({"("}), AnyLetterCI, One({")"}),
           Opt({"."}), Plus(WhiteSpace)>>,
         <<3>>, TRUE, FALSE, TRUE, TRUE)

\* An argument of a call that may pass fewer arguments than parameters.
Arg(args, n) == IF n <= Len(args) THEN args[n] ELSE Undefined
\* `${v}`
TemplateText(v) == IF v = Undefined THEN UndefinedText ELSE v

\* The format functions of QUESTION_PATTERNS, called as format(...args).
Format1(args) ==
  TemplateText(Arg(args, 1)) \o <<"(">> \o TemplateText(Arg(args, 2))
    \o <<")">>
Format2(args) == TemplateText(Arg(args, 1))
Format3(args) ==
  <<"Q","u","e","s","t","i","o","n"," ">> \o TemplateText(Arg(args, 1))
Format4(args) == <<"Q">> \o TemplateText(Arg(args, 1))
Format5(args) == <<"(">> \o TemplateText(Arg(args, 1)) \o <<")">>
PatternFormat(n, args) ==
  CASE n = 1 -> Format1(args) [] n = 2 -> Format2(args)
    [] n = 3 -> Format3(args) [] n = 4 -> Format4(args)
    [] n = 5 -> Format5(args)

QUESTION_PATTERNS ==
  << [regex |-> QuestionRegex1, confidence |-> "high"],
     [regex |-> QuestionRegex2, confidence |-> "high"],
     [regex |-> QuestionRegex3, confidence |-> "high"],
     [regex |-> QuestionRegex4, confidence |-> "medium"],
     [regex |-> QuestionRegex5, confidence |-> "medium"] >>

\* m a r k s? under the i flag
MarksWord ==
  <<CI("m","M"), CI("a","A"), CI("r","R"), CI("k","K"), Opt({"s","S"})>>
Unanchored(items, groups) == RegExp(items, groups, FALSE, FALSE, FALSE, FALSE)

MARKS_PATTERNS ==
  << \* /(\d+)\s*marks?/i
     Unanchored(<<Plus(Digit), Star(WhiteSpace)>> \o MarksWord, <<1>>),
     \* /\((\d+)\s*marks?\)/i
     Unanchored(<<One({"("}), Plus(Digit), Star(WhiteSpace)>> \o MarksWord
                  \o <<One({")"})>>, <<2>>),
     \* /\[(\d+)\s*marks?\]/i
     Unanchored(<<One({"["}), Plus(Digit), Star(WhiteSpace)>> \o MarksWord
                  \o <<One({"]"})>>, <<2>>),
     \* /marks?\s*:?\s*(\d+)/i
     Unanchored(MarksWord \o <<Star(WhiteSpace), Opt({":"}),
                  Star(WhiteSpace), Plus(Digit)>>, <<9>>),
     \* /\((\d+)\)/
     Unanchored(<<One({"("}), Plus(Digit), One({")"})>>, <<2>>),
     \* /\[(\d+)\]/
     Unanchored(<<One({"["}), Plus(Digit), One({"]"})>>, <<2>>) >>

pageBreakIndicators ==
  << \* /P\.?\s*T\.?\s*O\.?/i
     Unanchored(<<CI("p","P"), Opt({"."}), Star(WhiteSpace), CI("t","T"),
                  Opt({"."}), Star(WhiteSpace), CI("o","O"), Opt({"."})>>,
                <<>>),
     \* /Page\s+\d+/i
     Unanchored(<<CI("p","P"), CI("a","A"), CI("g","G"), CI("e","E"),
                  Plus(WhiteSpace), Plus(Digit)>>, <<>>),
     \* /^\s*\d+\s*$/
     RegExp(<<Star(WhiteSpace), Plus(Digit), Star(WhiteSpace)>>, <<>>,
            TRUE, TRUE, FALSE, FALSE),
     \* /\[\s*\d+\s*\]/
     Unanchored(<<One({"["}), Star(WhiteSpace), Plus(Digit),
                  Star(WhiteSpace), One({"]"})>>, <<>>) >>

(***************************************************************************)
(* The functions of pdfParser.ts.                                          *)
(***************************************************************************)
isPageBreak(line) ==
  \E n \in 1..Len(pageBreakIndicators) :
    RegExpTest(pageBreakIndicators[n], line)

\* The marks range test of extractMarks.
MarksInRange(marks) == marks > 0 /\ marks <= 100

\* The for loop of extractMarks with a return of undefined for the
\* continue of a number out of range.
RECURSIVE ExtractFirstMarksFrom(_, _)
ExtractFirstMarksFrom(text, n) ==
  IF n > Len(MARKS_PATTERNS) THEN UndefinedNum
  ELSE LET match == StringMatch(text, MARKS_PATTERNS[n])
       IN  IF match = Null THEN ExtractFirstMarksFrom(text, n + 1)
           ELSE IF MarksInRange(ParseInt(match[2])) THEN ParseInt(match[2])
           ELSE UndefinedNum
\* The for loop of extractMarks from pattern n on.
\* The for loop of extractMarks over MARKS_PATTERNS from its last pattern to
\* its first.
RECURSIVE ExtractLastMarksFrom(_, _)
ExtractLastMarksFrom(text, n) ==
  IF n > Len(MARKS_PATTERNS) THEN UndefinedNum
  ELSE LET match == StringMatch(text, MARKS_PATTERNS[Len(MARKS_PATTERNS) + 1 - n])
       IN  IF match # Null /\ MarksInRange(ParseInt(match[2]))
           THEN ParseInt(match[2])
           ELSE ExtractLastMarksFrom(text, n + 1)

RECURSIVE ExtractMarksFrom(_, _)
ExtractMarksFrom(text, n) ==
  IF n > Len(MARKS_PATTERNS) THEN UndefinedNum
  ELSE LET match == StringMatch(text, MARKS_PATTERNS[n])
       IN  IF match # Null /\ MarksInRange(ParseInt(match[2]))
           THEN ParseInt(match[2])
           ELSE ExtractMarksFrom(text, n + 1)
extractMarks(ls) == ExtractMarksFrom(Join(ls, <<" ">>), 1)

\* a.match(/\d+/)?.[0] || '0', parsed
FirstDigits == Unanchored(<<Plus(Digit)>>, <<>>)
\* The numeric part with '1' for '0' where there is no digit.
NumericPartOrOne(a) ==
  LET match == StringMatch(a, FirstDigits)
  IN  ParseInt(IF match = Null THEN <<"1">> ELSE match[1])
NumericPart(a) ==
  LET match == StringMatch(a, FirstDigits)
  IN  ParseInt(IF match = Null THEN <<"0">> ELSE match[1])
\* a.match(/\(([a-z])\)/)?.[1]
SubPartRegex == Unanchored(<<One({"("}), One(Lower), One({")"})>>, <<2>>)
SubPart(a) ==
  LET match == StringMatch(a, SubPartRegex)
  IN  IF match = Null THEN Undefined ELSE match[2]

LowerSeq == <<"a","b","c","d","e","f","g","h","i","j","k","l","m",
              "n","o","p","q","r","s","t","u","v","w","x","y","z">>
LetterRank(c) == CHOOSE n \in 1..Len(LowerSeq) : LowerSeq[n] = c
\* compareQuestionNumbers with the main numbers subtracted the other way.
compareDescending(a, b) ==
  IF NumericPart(a) # NumericPart(b) THEN NumericPart(b) - NumericPart(a)
  ELSE 0

\* x.localeCompare(y) of two one-letter lower-case strings
LocaleCompare(x, y) ==
  IF LetterRank(x[1]) < LetterRank(y[1]) THEN -1
  ELSE IF LetterRank(x[1]) > LetterRank(y[1]) THEN 1 ELSE 0

compareQuestionNumbers(a, b) ==
  LET numA == NumericPart(a)
      numB == NumericPart(b)
      subA == SubPart(a)
      subB == SubPart(b)
  IN  IF numA # numB THEN numA - numB
      ELSE IF subA # Undefined /\ subB # Undefined
           THEN LocaleCompare(subA, subB)
      ELSE IF subA # Undefined THEN 1
      ELSE IF subB # Undefined THEN -1
      ELSE 0

\* Array.prototype.reverse for Array.prototype.sort.
ReverseQuestions(qs) == [n \in 1..Len(qs) |-> qs[Len(qs) + 1 - n]]
\* Array.prototype.sort with the comparator of detectQuestions: a stable
\* sort, here by insertion.
RECURSIVE InsertSorted(_, _)
InsertSorted(sorted, q) ==
  IF sorted = <<>> THEN <<q>>
  ELSE LET last == sorted[Len(sorted)]
       IN  IF compareQuestionNumbers(last.questionNumber, q.questionNumber) > 0
           THEN Append(InsertSorted(SubSeq(sorted, 1, Len(sorted) - 1), q),
                       last)
           ELSE Append(sorted, q)
RECURSIVE SortQuestions(_)
SortQuestions(qs) ==
  IF qs = <<>> THEN <<>>
  ELSE InsertSorted(SortQuestions(SubSeq(qs, 1, Len(qs) - 1)), qs[Len(qs)])

\* Map.has on an insertion-ordered map kept as the sequence of its values,
\* keyed by questionNumber.
MapHas(map, key) == \E n \in 1..Len(map) : map[n].questionNumber = key

\* Duplicates spliced out of the list while a loop walks it: the record
\* after a removed one is never looked at.
RECURSIVE SpliceFrom(_, _)
SpliceFrom(qs, n) ==
  IF n > Len(qs) THEN qs
  ELSE IF \E k \in 1..(n - 1) : qs[k].questionNumber = qs[n].questionNumber
       THEN SpliceFrom(SubSeq(qs, 1, n - 1) \o SubSeq(qs, n + 1, Len(qs)),
                       n + 1)
       ELSE SpliceFrom(qs, n + 1)
UniqueSpliced(qs) == SpliceFrom(qs, 1)

\* unique.set without the unique.has test: the last record of each
\* questionNumber, where the first stood.
RECURSIVE OverwriteFrom(_, _, _)
OverwriteFrom(qs, n, unique) ==
  IF n > Len(qs) THEN unique
  ELSE OverwriteFrom(qs, n + 1,
         IF \E k \in 1..Len(unique) :
              unique[k].questionNumber = qs[n].questionNumber
         THEN [k \in 1..Len(unique) |->
                 IF unique[k].questionNumber = qs[n].questionNumber
                 THEN qs[n] ELSE unique[k]]
         ELSE Append(unique, qs[n]))
UniqueOverwritten(qs) == OverwriteFrom(qs, 1, <<>>)

\* The forEach of cleanQuestions: the first record of each questionNumber.
RECURSIVE UniqueFrom(_, _, _)
UniqueFrom(qs, n, unique) ==
  IF n > Len(qs) THEN unique
  ELSE UniqueFrom(qs, n + 1,
         IF MapHas(unique, qs[n].questionNumber) THEN unique
         ELSE Append(unique, qs[n]))
Unique(qs) == UniqueFrom(qs, 1, <<>>)

\* The text test without the test that there is a text.
TextAbsentOrShort(q) ==
  q.questionText \in {Undefined, <<>>} \/ Len(q.questionText) < 3
\* The text test of the filter of cleanQuestions.
TextTooShort(q) ==
  q.questionText # Undefined /\ q.questionText # <<>>
    /\ Len(q.questionText) < 3
\* The number test with && for ||.
NumberUnreasonableBoth(q) ==
  NumericPart(q.questionNumber) < 1 /\ NumericPart(q.questionNumber) > 100
\* The number test of the filter of cleanQuestions.
NumberUnreasonable(q) ==
  NumericPart(q.questionNumber) < 1 \/ NumericPart(q.questionNumber) > 100
KeepQuestion(q) == ~TextTooShort(q) /\ ~NumberUnreasonable(q)

RECURSIVE Filter(_)
Filter(qs) ==
  IF qs = <<>> THEN <<>>
  ELSE (IF KeepQuestion(Head(qs)) THEN <<Head(qs)>> ELSE <<>>)
         \o Filter(Tail(qs))

\* cleanQuestions with a sort of what the filter returns.
cleanQuestionsSorted(qs) == SortQuestions(Filter(Unique(qs)))
\* cleanQuestions: the filter over the values of the Map.
cleanQuestions(qs) == Filter(Unique(qs))

\* The range test with 1 for 10.
TotalInRangeFromOne(marks) == marks >= 1 /\ marks <= 500
\* The range test without its upper limit.
TotalInRangeNoLimit(marks) == marks >= 10
\* The range test of extractTotalMarks.
TotalInRange(marks) == marks >= 10 /\ marks <= 500

\* Marks? \s* :? \s* (\d+) under the i flag
MarksLabel ==
  MarksWord \o <<Star(WhiteSpace), Opt({":"}), Star(WhiteSpace),
                 Plus(Digit)>>
TotalMarksPatterns ==
  << \* /Maximum\s+Marks?\s*:?\s*(\d+)/i
     Unanchored(<<CI("m","M"), CI("a","A"), CI("x","X"), CI("i","I"),
                  CI("m","M"), CI("u","U"), CI("m","M"), Plus(WhiteSpace)>>
                  \o MarksLabel, <<17>>),
     \* /Total\s+Marks?\s*:?\s*(\d+)/i
     Unanchored(<<CI("t","T"), CI("o","O"), CI("t","T"), CI("a","A"),
                  CI("l","L"), Plus(WhiteSpace)>> \o MarksLabel, <<15>>),
     \* /Marks?\s*:?\s*(\d+)/i
     Unanchored(MarksLabel, <<9>>) >>

RECURSIVE ExtractTotalMarksFrom(_, _)
ExtractTotalMarksFrom(text, n) ==
  IF n > Len(TotalMarksPatterns) THEN UndefinedNum
  ELSE LET match == StringMatch(text, TotalMarksPatterns[n])
       IN  IF match # Null /\ TotalInRange(ParseInt(match[2]))
           THEN ParseInt(match[2])
           ELSE ExtractTotalMarksFrom(text, n + 1)
extractTotalMarks(text) == ExtractTotalMarksFrom(text, 1)

\* The range test without its upper limit.
HoursInRangeNoLimit(hours) == hours >= 1
\* The range test of extractTimeDuration.
HoursInRange(hours) == hours >= 1 /\ hours <= 8

\* \s* :? \s* (\d+) \s* Hours? under the i flag
HoursAfterLabel ==
  <<Star(WhiteSpace), Opt({":"}), Star(WhiteSpace), Plus(Digit),
    Star(WhiteSpace), CI("h","H"), CI("o","O"), CI("u","U"), CI("r","R"),
    Opt({"s","S"})>>
TimePatterns ==
  << \* /Time\s*:?\s*(\d+)\s*Hours?/i
     Unanchored(<<CI("t","T"), CI("i","I"), CI("m","M"), CI("e","E")>>
                  \o HoursAfterLabel, <<8>>),
     \* /Duration\s*:?\s*(\d+)\s*Hours?/i
     Unanchored(<<CI("d","D"), CI("u","U"), CI("r","R"), CI("a","A"),
                  CI("t","T"), CI("i","I"), CI("o","O"), CI("n","N")>>
                  \o HoursAfterLabel, <<12>>) >>

RECURSIVE ExtractTimeDurationFrom(_, _)
ExtractTimeDurationFrom(text, n) ==
  IF n > Len(TimePatterns) THEN UndefinedNum
  ELSE LET match == StringMatch(text, TimePatterns[n])
       IN  IF match # Null /\ HoursInRange(ParseInt(match[2]))
           THEN ParseInt(match[2]) * 60
           ELSE ExtractTimeDurationFrom(text, n + 1)
extractTimeDuration(text) == ExtractTimeDurationFrom(text, 1)

(***************************************************************************)
(* The parse-pdf route: POST calls parsePDFQuestions, cleanQuestions and   *)
(* extractTotalMarks on an uploaded document.                              *)
(***************************************************************************)
VARIABLES
  pc,               \* where the request, or the call, stands
  buffer,           \* the uploaded document: the text pdf-parse reads in it
  extractions,      \* parsePDFQuestions: the calls of PDFParser made so far
  lines,            \* detectQuestions: its argument
  i,                \* detectQuestions: the loop index
  currentPage,      \* detectQuestions: the page counter
  questions,        \* detectQuestions: the Map, as its values in insertion order
  parseResult,      \* what parsePDFQuestions returned
  response,         \* what the route answered
  cleanInput,       \* a call of cleanQuestions: its argument
  cleaned,          \* what cleanQuestions returned of cleanInput
  recleaned,        \* what cleanQuestions returned of cleaned
  metaText,         \* a call of extractTotalMarks: its argument
  totalMarks,       \* what extractTotalMarks returned of metaText
  callPc,           \* concurrent calls of parsePDFQuestions: where each stands
  callData,         \* what PDFParser yields of the buffer of each call
  callLocals,       \* detectQuestions in each call: its Map and page counter
  callResult,       \* what each call returned
  lastIndex,        \* the lastIndex of the expressions of QUESTION_PATTERNS
  marksLines,       \* a call of extractMarks: its argument
  foundMarks,       \* what extractMarks returned of marksLines
  timeText,         \* a call of extractTimeDuration: its argument
  timeDuration,     \* what extractTimeDuration returned of timeText
  transactions,     \* the Transaction collection, in insertion order
  purchasedPapers,  \* the purchasedPapers array of each User
  downloads,        \* the downloads counter of each Paper
  orders,           \* Razorpay: the orders created so far
  paid,             \* Razorpay: the orders paid, whose signature is out
  requests,         \* the payment requests under way, each with its locals
  started,          \* the payment requests made so far
  currentStep,      \* the upload wizard: its step
  isUploading,      \* the upload wizard: a question paper is being uploaded
  formData          \* the upload wizard: its form

routeVars == <<buffer, extractions, lines, i, currentPage, questions, parseResult, response>>
cleanVars == <<cleanInput, cleaned, recleaned>>
metaVars  == <<metaText, totalMarks>>
callVars  == <<callPc, callData, callLocals, callResult, lastIndex>>
marksVars == <<marksLines, foundMarks>>
timeVars  == <<timeText, timeDuration>>
payVars   == <<transactions, purchasedPapers, downloads, orders, paid,
               requests, started>>
wizardVars == <<currentStep, isUploading, formData>>
vars == <<pc, buffer, extractions, lines, i, currentPage, questions, parseResult, response,
          cleanInput, cleaned, recleaned, metaText, totalMarks,
          callPc, callData, callLocals, callResult, lastIndex,
          marksLines, foundMarks, timeText, timeDuration,
          transactions, purchasedPapers, downloads, orders, paid,
          requests, started, currentStep, isUploading, formData>>

\* The most lines of a document made of the core lines, and of one made of
\* any lines.
MaxLines == 4
MaxShortLines == 2
\* The core lines:
\*   "1(a). Solve for x"
\*   ""
\*   "5 marks"
\*   "Page 2"
\*   "Q3 Explain gravity"
\*   "1. First"
\*   "1. First again"
CoreLines ==
  {
    <<"1","(","a",")","."," ","S","o","l","v","e"," ","f","o","r"," ","x">>,
    <<>>,
    <<"5"," ","m","a","r","k","s">>,
    <<"P","a","g","e"," ","2">>,
    <<"Q","3"," ","E","x","p","l","a","i","n"," ","g","r","a","v","i","t","y">>,
    <<"1","."," ","F","i","r","s","t">>,
    <<"1","."," ","F","i","r","s","t"," ","a","g","a","i","n">>
  }
\* The other lines:
\*   "Question 2 Why"
\*   "(b) ab"
\*   "2. B\r3. C"
\*   "2. Find y [4]"
\*   "P.T.O."
\*   "7"
\*   "3."
OtherLines ==
  {
    <<"Q","u","e","s","t","i","o","n"," ","2"," ","W","h","y">>,
    <<"(","b",")"," ","a","b">>,
    <<"2","."," ","B","\r","3","."," ","C">>,
    <<"2","."," ","F","i","n","d"," ","y"," ","[","4","]">>,
    <<"P",".","T",".","O",".">>,
    <<"7">>,
    <<"3",".">>
  }
CorpusLines == CoreLines \cup OtherLines
LinesUpTo(n, corpus) == UNION { [1..k -> corpus] : k \in 1..n }
\* The page counts pdf-parse reports.
PageCounts == {1, 2}

Documents ==
  { Join(ls, <<"\n">>) :
      ls \in LinesUpTo(MaxLines, CoreLines)
              \cup LinesUpTo(MaxShortLines, CorpusLines) }
Buffers ==
  [corrupt : {FALSE}, text : Documents]
    \cup [corrupt : {TRUE}, text : {<<>>}]

NoResult == [totalQuestions |-> -1, questions |-> <<>>, totalPages |-> -1,
             text |-> <<>>]
NoResponse == [status |-> 0]

\* No request to the route is under way.
RouteIdle ==
  /\ buffer = [corrupt |-> TRUE, text |-> <<>>]
  /\ extractions = 0
  /\ lines = <<>>
  /\ i = 0
  /\ currentPage = 1
  /\ questions = <<>>
  /\ parseResult = NoResult
  /\ response = NoResponse
\* No call of cleanQuestions is under way.
CleanIdle == cleanInput = <<>> /\ cleaned = <<>> /\ recleaned = <<>>
\* No call of extractTotalMarks is under way.
MetaIdle == metaText = <<>> /\ totalMarks = UndefinedNum
\* No concurrent calls of parsePDFQuestions are under way.
CallIdle ==
  /\ callPc = <<>>
  /\ callData = <<>>
  /\ callLocals = <<>>
  /\ callResult = <<>>
  /\ lastIndex = <<0, 0, 0, 0, 0>>
\* No call of extractMarks is under way.
MarksIdle == marksLines = <<>> /\ foundMarks = UndefinedNum
\* No call of extractTimeDuration is under way.
TimeIdle == timeText = <<>> /\ timeDuration = UndefinedNum
\* No payment request was made.
PayIdle ==
  /\ transactions = <<>>
  /\ purchasedPapers = <<>>
  /\ downloads = <<>>
  /\ orders = 0
  /\ paid = {}
  /\ requests = EmptyBag
  /\ started = 0
\* The upload page is not open.
WizardIdle == currentStep = 0 /\ isUploading = FALSE /\ formData = <<>>

Init ==
  /\ pc = "start"
  /\ buffer \in Buffers
  /\ extractions = 0
  /\ lines = <<>>
  /\ i = 0
  /\ currentPage = 1
  /\ questions = <<>>
  /\ parseResult = NoResult
  /\ response = NoResponse
  /\ CleanIdle
  /\ MetaIdle
  /\ CallIdle
  /\ MarksIdle
  /\ TimeIdle
  /\ PayIdle
  /\ WizardIdle

\* for (const pattern of QUESTION_PATTERNS): the first pattern from the
\* n-th on that matches line; 0 if none does.
RECURSIVE FirstPatternFrom(_, _)
FirstPatternFrom(line, n) ==
  IF n > Len(QUESTION_PATTERNS) THEN 0
  ELSE IF StringMatch(line, QUESTION_PATTERNS[n].regex) # Null THEN n
  ELSE FirstPatternFrom(line, n + 1)
FirstPattern(line) == FirstPatternFrom(line, 1)

\* questionText || undefined
OrUndefined(str) == IF str = <<>> THEN Undefined ELSE str

\* What detectQuestions computes of a line that pattern matches: the
\* question number pattern.format(...match.slice(1)), the question text
\* line.replace(pattern.regex, '').trim() and the confidence.
MatchFacts(line, pattern, n) ==
  [empty     |-> FALSE,
   pageBreak |-> FALSE,
   pattern   |-> n,
   questionNumber |-> PatternFormat(n, Tail(StringMatch(line, pattern.regex))),
   questionText   |-> OrUndefined(Trim(StringReplaceEmpty(line, pattern.regex))),
   confidence     |-> pattern.confidence]
\* lines.slice(i, i + 2)
MarksWindowOfTwo(ls, at) == SubSeq(ls, at + 1, Min(at + 2, Len(ls)))
\* lines.slice(i, i + 3)
MarksWindow(ls, at) == SubSeq(ls, at + 1, Min(at + 3, Len(ls)))

\* A line that makes no question: it is empty, a page break, or matches no
\* pattern.
NoMatchFacts(empty, pageBreak) ==
  [empty     |-> empty,
   pageBreak |-> pageBreak,
   pattern   |-> 0,
   questionNumber |-> Undefined,
   questionText   |-> Undefined,
   confidence     |-> "low"]

\* What one iteration of the loop of detectQuestions computes of a line:
\* whether it is empty once trimmed, else whether it is a page break, else
\* the first pattern that matches it and the question it makes.
PatternFacts(line, n) ==
  IF n = 0 THEN NoMatchFacts(FALSE, FALSE)
  ELSE MatchFacts(line, QUESTION_PATTERNS[n], n)
\* The iteration with the pattern loop before the page-break test.
TrimmedFactsPatternFirst(line) ==
  IF line = <<>> THEN NoMatchFacts(TRUE, FALSE)
  ELSE IF FirstPattern(line) # 0 THEN PatternFacts(line, FirstPattern(line))
  ELSE IF isPageBreak(line) THEN NoMatchFacts(FALSE, TRUE)
  ELSE NoMatchFacts(FALSE, FALSE)
TrimmedFacts(line) ==
  IF line = <<>> THEN NoMatchFacts(TRUE, FALSE)
  ELSE IF isPageBreak(line) THEN NoMatchFacts(FALSE, TRUE)
  ELSE PatternFacts(line, FirstPattern(line))
LineFacts(raw) == TrimmedFacts(Trim(raw))

\* LineFacts and extractMarks are functions of the text alone: they are
\* tabulated over the lines documents are made of, so that each is
\* computed once and not in every state.
FactsTable == [raw \in CorpusLines |-> LineFacts(raw)]
WindowsOf(n, corpus) ==
  IF n = 1 THEN { <<a>> : a \in corpus }
  ELSE IF n = 2 THEN { <<a, b>> : a \in corpus, b \in corpus }
  ELSE { <<a, b, c>> : a \in corpus, b \in corpus, c \in corpus }
Windows ==
  WindowsOf(1, CorpusLines) \cup WindowsOf(2, CorpusLines)
    \cup WindowsOf(3, CoreLines)
    \cup (IF MaxShortLines >= 3 THEN WindowsOf(3, CorpusLines) ELSE {})
MarksTable == [w \in Windows |-> extractMarks(w)]

\* The facts of the line the loop is at.
Line == FactsTable[lines[i + 1]]

\* The record detectQuestions makes of the line at index at (from 0).
NewQuestion(ls, at, page) ==
  [questionNumber |-> FactsTable[ls[at + 1]].questionNumber,
   questionText   |-> FactsTable[ls[at + 1]].questionText,
   marks          |-> MarksTable[MarksWindow(ls, at)],
   pageNumber     |-> page,
   confidence     |-> FactsTable[ls[at + 1]].confidence]

\* const data = await PDFParser(buffer); const lines = text.split('\n');
\* and the entry of detectQuestions.
Extract ==
  /\ pc = "start"
  /\ ~buffer.corrupt
  /\ pc' = "detect"
  /\ extractions' = extractions + 1
  /\ lines' = Split(buffer.text)
  /\ i' = 0
  /\ currentPage' = 1
  /\ questions' = <<>>
  /\ UNCHANGED <<buffer, parseResult, response,
                 cleanVars, metaVars, callVars,
                 marksVars, timeVars,
                 payVars, wizardVars>>

\* PDFParser throws and the catch returns an empty result in place of
\* throwing.
ExtractFailsQuietly ==
  /\ pc = "start"
  /\ buffer.corrupt
  /\ pc' = "parsed"
  /\ extractions' = extractions + 1
  /\ parseResult' = [totalQuestions |-> 0, questions |-> <<>>,
                     totalPages |-> 0, text |-> <<>>]
  /\ UNCHANGED <<buffer, lines, i, currentPage, questions, response,
                 cleanVars, metaVars, callVars,
                 marksVars, timeVars,
                 payVars, wizardVars>>

\* PDFParser throws: parsePDFQuestions throws 'Failed to parse PDF file' and
\* the route answers 500.
ExtractFails ==
  /\ pc = "start"
  /\ buffer.corrupt
  /\ pc' = "failed"
  /\ extractions' = extractions + 1
  /\ response' = [status |-> 500]
  /\ UNCHANGED <<buffer, lines, i, currentPage, questions, parseResult,
                 cleanVars, metaVars, callVars,
                 marksVars, timeVars,
                 payVars, wizardVars>>

\* if (!line) continue;
SkipEmptyLine ==
  /\ pc = "detect"
  /\ i < Len(lines)
  /\ Line.empty
  /\ i' = i + 1
  /\ UNCHANGED <<pc, buffer, extractions, lines, currentPage, questions, parseResult,
                 response,
                 cleanVars, metaVars, callVars,
                 marksVars, timeVars,
                 payVars, wizardVars>>

\* if (isPageBreak(line)) continue; without currentPage++
PageBreakLineUncounted ==
  /\ pc = "detect"
  /\ i < Len(lines)
  /\ ~Line.empty
  /\ Line.pageBreak
  /\ i' = i + 1
  /\ UNCHANGED <<pc, buffer, extractions, lines, currentPage, questions, parseResult,
                 response, cleanVars, metaVars, callVars,
                 marksVars, timeVars,
                 payVars, wizardVars>>

\* if (isPageBreak(line)) { currentPage++; continue; }
PageBreakLine ==
  /\ pc = "detect"
  /\ i < Len(lines)
  /\ ~Line.empty
  /\ Line.pageBreak
  /\ currentPage' = currentPage + 1
  /\ i' = i + 1
  /\ UNCHANGED <<pc, buffer, extractions, lines, questions, parseResult, response,
                 cleanVars, metaVars, callVars,
                 marksVars, timeVars,
                 payVars, wizardVars>>

\* A pattern matches and the Map has no record of the question number.
NewQuestionLine ==
  /\ pc = "detect"
  /\ i < Len(lines)
  /\ ~Line.empty
  /\ ~Line.pageBreak
  /\ Line.pattern # 0
  /\ ~MapHas(questions, Line.questionNumber)
  /\ questions' = Append(questions, NewQuestion(lines, i, currentPage))
  /\ i' = i + 1
  /\ UNCHANGED <<pc, buffer, extractions, lines, currentPage, parseResult, response,
                 cleanVars, metaVars, callVars,
                 marksVars, timeVars,
                 payVars, wizardVars>>

\* A pattern matches and the Map has a record of the question number.
KnownQuestionLine ==
  /\ pc = "detect"
  /\ i < Len(lines)
  /\ ~Line.empty
  /\ ~Line.pageBreak
  /\ Line.pattern # 0
  /\ MapHas(questions, Line.questionNumber)
  /\ i' = i + 1
  /\ UNCHANGED <<pc, buffer, extractions, lines, currentPage, questions, parseResult,
                 response,
                 cleanVars, metaVars, callVars,
                 marksVars, timeVars,
                 payVars, wizardVars>>

\* No pattern matches.
OtherLine ==
  /\ pc = "detect"
  /\ i < Len(lines)
  /\ ~Line.empty
  /\ ~Line.pageBreak
  /\ Line.pattern = 0
  /\ i' = i + 1
  /\ UNCHANGED <<pc, buffer, extractions, lines, currentPage, questions, parseResult,
                 response,
                 cleanVars, metaVars, callVars,
                 marksVars, timeVars,
                 payVars, wizardVars>>

\* The return of parsePDFQuestions with lines.length for questions.length.
ReturnParseCountsLines ==
  /\ pc = "detect"
  /\ i >= Len(lines)
  /\ pc' = "parsed"
  /\ \E numpages \in PageCounts :
       parseResult' =
         [totalQuestions |-> Len(lines),
          questions      |-> SortQuestions(questions),
          totalPages     |-> numpages,
          text           |-> buffer.text]
  /\ UNCHANGED <<buffer, extractions, lines, i,
                 currentPage, questions, response,
                 cleanVars, metaVars, callVars,
                 marksVars, timeVars,
                 payVars, wizardVars>>

\* The return of parsePDFQuestions with the page counter of detectQuestions
\* for data.numpages.
ReturnParsePageCounter ==
  /\ pc = "detect"
  /\ i >= Len(lines)
  /\ pc' = "parsed"
  /\ parseResult' =
       [totalQuestions |-> Len(questions),
        questions      |-> SortQuestions(questions),
        totalPages     |-> currentPage,
        text           |-> buffer.text]
  /\ UNCHANGED <<buffer, extractions, lines, i,
                 currentPage, questions, response,
                 cleanVars, metaVars, callVars,
                 marksVars, timeVars,
                 payVars, wizardVars>>

\* The loop ends: detectQuestions sorts the values of the Map and
\* parsePDFQuestions returns.  totalPages is data.numpages, the page count
\* pdf-parse found in the document, which nothing reads before.
ReturnParse ==
  /\ pc = "detect"
  /\ i >= Len(lines)
  /\ pc' = "parsed"
  /\ \E numpages \in PageCounts :
       parseResult' =
         [totalQuestions |-> Len(questions),
          questions      |-> SortQuestions(questions),
          totalPages     |-> numpages,
          text           |-> buffer.text]
  /\ UNCHANGED <<buffer, extractions, lines, i,
                 currentPage, questions, response,
                 cleanVars, metaVars, callVars,
                 marksVars, timeVars,
                 payVars, wizardVars>>

\* The route cleans the questions, extracts the total marks and answers.
Respond ==
  /\ pc = "parsed"
  /\ pc' = "done"
  /\ LET cleanedQuestions == cleanQuestions(parseResult.questions)
     IN  response' =
           [status         |-> 200,
            totalQuestions |-> Len(cleanedQuestions),
            questions      |-> cleanedQuestions,
            totalPages     |-> parseResult.totalPages,
            totalMarks     |-> extractTotalMarks(parseResult.text)]
  /\ UNCHANGED <<buffer, extractions, lines, i,
                 currentPage, questions, parseResult,
                 cleanVars, metaVars, callVars,
                 marksVars, timeVars,
                 payVars, wizardVars>>

Next ==
  \/ Extract
  \/ ExtractFails
  \/ SkipEmptyLine
  \/ PageBreakLine
  \/ NewQuestionLine
  \/ KnownQuestionLine
  \/ OtherLine
  \/ ReturnParse
  \/ Respond

Spec == Init /\ [][Next]_vars

(***************************************************************************)
(* cleanQuestions called on any list of questions, and again on what it    *)
(* returned.                                                               *)
(***************************************************************************)
\* The most questions of a list.
MaxQuestions == 3
\* The question numbers of the lists: "1", "2", "1(a)", "1(b)", "(a)", "0", "101"
QuestionNumbers ==
  { <<"1">>,
    <<"2">>,
    <<"1","(","a",")">>,
    <<"1","(","b",")">>,
    <<"(","a",")">>,
    <<"0">>,
    <<"1","0","1">> }
\* The question texts of the lists: none, "ab", "abc"
QuestionTexts == { Undefined, <<"a","b">>, <<"a","b","c">> }
\* A question "1" whose text is the empty string.
EmptyTextQuestions ==
  [questionNumber : {<<"1">>}, questionText : {<<>>},
   marks : {UndefinedNum}, pageNumber : {1}, confidence : {"high"}]
AnyQuestions ==
  [questionNumber : QuestionNumbers, questionText : QuestionTexts,
   marks : {UndefinedNum}, pageNumber : {1}, confidence : {"high"}]
    \cup EmptyTextQuestions
QuestionLists == UNION { [1..n -> AnyQuestions] : n \in 0..MaxQuestions }

InitClean ==
  /\ pc = "clean"
  /\ cleanInput \in QuestionLists
  /\ cleaned = <<>>
  /\ recleaned = <<>>
  /\ RouteIdle
  /\ MetaIdle
  /\ CallIdle
  /\ MarksIdle
  /\ TimeIdle
  /\ PayIdle
  /\ WizardIdle

\* cleanQuestions(cleanInput)
Clean ==
  /\ pc = "clean"
  /\ pc' = "cleaned"
  /\ cleaned' = cleanQuestions(cleanInput)
  /\ UNCHANGED <<cleanInput, recleaned, routeVars, metaVars, callVars,
                 marksVars, timeVars,
                 payVars, wizardVars>>

\* cleanQuestions(cleaned)
CleanAgain ==
  /\ pc = "cleaned"
  /\ pc' = "recleaned"
  /\ recleaned' = cleanQuestions(cleaned)
  /\ UNCHANGED <<cleanInput, cleaned, routeVars, metaVars, callVars,
                 marksVars, timeVars,
                 payVars, wizardVars>>

NextClean ==
  \/ Clean
  \/ CleanAgain

SpecClean == InitClean /\ [][NextClean]_vars

(***************************************************************************)
(* extractTotalMarks called on any text.                                   *)
(***************************************************************************)
\* The most lines of a text.
MaxTextLines == 3
\* The lines of the texts:
\*   "Maximum Marks: 80"
\*   "Marks: 5"
\*   "Marks: 50"
\*   "Total Marks: 100"
\*   "Maximum Marks: 800"
\*   "Maximum marks 9"
\*   "Total marks : 501"
\*   "Time: 3 Hours"
\*   "5 marks"
\*   "MARK 10"
\*   "Section A"
TextLines ==
  {
    <<"M","a","x","i","m","u","m"," ","M","a","r","k","s",":"," ","8","0">>,
    <<"M","a","r","k","s",":"," ","5">>,
    <<"M","a","r","k","s",":"," ","5","0">>,
    <<"T","o","t","a","l"," ","M","a","r","k","s",":"," ","1","0","0">>,
    <<"M","a","x","i","m","u","m"," ","M","a","r","k","s",":"," ","8","0","0">>,
    <<"M","a","x","i","m","u","m"," ","m","a","r","k","s"," ","9">>,
    <<"T","o","t","a","l"," ","m","a","r","k","s"," ",":"," ","5","0","1">>,
    <<"T","i","m","e",":"," ","3"," ","H","o","u","r","s">>,
    <<"5"," ","m","a","r","k","s">>,
    <<"M","A","R","K"," ","1","0">>,
    <<"S","e","c","t","i","o","n"," ","A">>
  }
Texts == { Join(ls, <<"\n">>) : ls \in LinesUpTo(MaxTextLines, TextLines) }

InitMeta ==
  /\ pc = "meta"
  /\ metaText \in Texts
  /\ totalMarks = UndefinedNum
  /\ RouteIdle
  /\ CleanIdle
  /\ CallIdle
  /\ MarksIdle
  /\ TimeIdle
  /\ PayIdle
  /\ WizardIdle

\* extractTotalMarks(metaText)
TotalMarks ==
  /\ pc = "meta"
  /\ pc' = "returned"
  /\ totalMarks' = extractTotalMarks(metaText)
  /\ UNCHANGED <<metaText, routeVars, cleanVars, callVars,
                 marksVars, timeVars,
                 payVars, wizardVars>>

NextMeta == TotalMarks

SpecMeta == InitMeta /\ [][NextMeta]_vars

(***************************************************************************)
(* What the claims speak of.                                               *)
(***************************************************************************)
\* Where in the list qs the records of question number id stand.
Occurrences(qs, id) == { n \in 1..Len(qs) : qs[n].questionNumber = id }
\* The least of a non-empty set of numbers.
Least(S) == CHOOSE n \in S : \A m \in S : n <= m
\* The first record of question number id in qs.
FirstOf(qs, id) == qs[Least(Occurrences(qs, id))]

\* The numeric id of a question number: the value of its first run of
\* digits, 0 if it has no digit.
DigitPositions(id) == { n \in 1..Len(id) : id[n] \in Digit }
RunEnd(id, from) ==
  Least({ n \in from..Len(id) : n = Len(id) \/ id[n + 1] \notin Digit })
NumericIdOf(id) ==
  IF DigitPositions(id) = {} THEN 0
  ELSE ParseInt(SubSeq(id, Least(DigitPositions(id)),
                       RunEnd(id, Least(DigitPositions(id)))))
\* The sub-part rank of a question number: 0 without a sub-part, else the
\* rank of its letter.
SubRankOf(id) ==
  IF SubPart(id) = Undefined THEN 0 ELSE LetterRank(SubPart(id)[1])
\* The two are functions of the question number alone: they are tabulated
\* over the question numbers of the lists and of the lines.
KnownIds ==
  QuestionNumbers \cup { FactsTable[raw].questionNumber : raw \in CorpusLines }
KeyTable == [id \in KnownIds |-> <<NumericIdOf(id), SubRankOf(id)>>]
NumericId(id) == KeyTable[id][1]
SubRank(id) == KeyTable[id][2]
IdInRange(id) == NumericId(id) >= 1 /\ NumericId(id) <= 100

\* A record passes the false-positive filter: its text is absent, empty or
\* at least 3 characters long and its numeric id is in [1,100].
PassesFilter(q) ==
  /\ q.questionText \in {Undefined, <<>>} \/ Len(q.questionText) >= 3
  /\ IdInRange(q.questionNumber)

\* The order of the claims on a list: the lesser numeric id first; of equal
\* numeric ids, the one without sub-part before the ones with a sub-part,
\* and those by their letter.
Ordered(qs) ==
  \A m, n \in 1..Len(qs) :
    \/ NumericId(qs[m].questionNumber) < NumericId(qs[n].questionNumber)
    \/ /\ NumericId(qs[m].questionNumber) = NumericId(qs[n].questionNumber)
       /\ SubRank(qs[m].questionNumber) < SubRank(qs[n].questionNumber)
    => m < n

\* C1: curation is idempotent: cleanQuestions of what cleanQuestions
\* returned is that same list, the same records in the same order.
C1_CleanIdempotent == pc = "recleaned" => recleaned = cleaned
\* C1 happens: a list with three records of one question number, which
\* cleaning made shorter and cleaning again left alone.
C1_Witness ==
  /\ pc = "recleaned"
  /\ Len(cleanInput) = 3
  /\ \A n \in 1..3 : cleanInput[n].questionNumber = <<"1">>
  /\ Len(cleaned) = 1
  /\ recleaned = cleaned

\* C2 as claimed: whenever two records of the input have the same
\* questionNumber, the output holds exactly one record of that
\* questionNumber and it is the first of the input.
C2_ExactlyOneOfDuplicates ==
  pc \in {"cleaned", "recleaned"} =>
    \A id \in QuestionNumbers :
      Cardinality(Occurrences(cleanInput, id)) >= 2 =>
        /\ Cardinality(Occurrences(cleaned, id)) = 1
        /\ FirstOf(cleaned, id) = FirstOf(cleanInput, id)
\* C2 as amended: whenever two records of the input have the same
\* questionNumber, the output holds at most one record of that
\* questionNumber: exactly one, the first of the input, when that first
\* record passes the false-positive filter, and none otherwise.
C2_FirstOfDuplicatesIfKept ==
  pc \in {"cleaned", "recleaned"} =>
    \A id \in QuestionNumbers :
      Cardinality(Occurrences(cleanInput, id)) >= 2 =>
        IF PassesFilter(FirstOf(cleanInput, id))
        THEN /\ Cardinality(Occurrences(cleaned, id)) = 1
             /\ FirstOf(cleaned, id) = FirstOf(cleanInput, id)
        ELSE Occurrences(cleaned, id) = {}
\* C2 happens: two records of question "1" with different texts that both
\* pass the filter, and the first is the one returned.
C2_Witness ==
  /\ pc = "cleaned"
  /\ Len(cleanInput) = 2
  /\ cleanInput[1].questionNumber = <<"1">>
  /\ cleanInput[2].questionNumber = <<"1">>
  /\ cleanInput[1].questionText = <<"a","b","c">>
  /\ cleanInput[2].questionText = Undefined
  /\ cleaned = <<cleanInput[1]>>

\* C3: every input record whose numeric id is outside [1,100] is excluded
\* from the output of cleanQuestions, and every record of the output has
\* its numeric id in [1,100].
C3_RangeFiltered ==
  pc \in {"cleaned", "recleaned"} =>
    /\ \A n \in 1..Len(cleaned) : IdInRange(cleaned[n].questionNumber)
    /\ \A n \in 1..Len(cleanInput) :
         ~IdInRange(cleanInput[n].questionNumber) =>
           \A m \in 1..Len(cleaned) : cleaned[m] # cleanInput[n]
\* C3 happens: the ids 0 and 101 are dropped and the id 1 is kept.
C3_Witness ==
  /\ pc = "cleaned"
  /\ { cleanInput[n].questionNumber : n \in 1..Len(cleanInput) }
       = { <<"0">>, <<"1","0","1">>, <<"1">> }
  /\ Len(cleaned) = 1
  /\ cleaned[1].questionNumber = <<"1">>

\* C4 as claimed: for any input list, the list cleanQuestions returns is
\* in the order of the claims.
C4_OutputOrdered == pc \in {"cleaned", "recleaned"} => Ordered(cleaned)
\* C4 as amended: cleanQuestions keeps the order of its input; the list it
\* returns is in the order of the claims whenever its input is sorted by
\* compareQuestionNumbers, as the list detectQuestions returns is.
C4_OrderedIfInputSorted ==
  pc \in {"cleaned", "recleaned"} =>
    (cleanInput = SortQuestions(cleanInput) => Ordered(cleaned))
\* C4 happens: a sorted input whose records 1, 1(a), 1(b) are all returned.
C4_Witness ==
  /\ pc = "cleaned"
  /\ cleanInput = SortQuestions(cleanInput)
  /\ Len(cleaned) = 3
  /\ cleaned[1].questionNumber = <<"1">>
  /\ cleaned[2].questionNumber = <<"1","(","a",")">>
  /\ cleaned[3].questionNumber = <<"1","(","b",")">>

\* Lines and texts the claims name.
SolveForX == <<"1","(","a",")","."," ","S","o","l","v","e"," ","f","o","r"," ","x">>
FiveMarks == <<"5"," ","m","a","r","k","s">>
Page2 == <<"P","a","g","e"," ","2">>
ExplainGravity == <<"Q","3"," ","E","x","p","l","a","i","n"," ","g","r","a","v","i","t","y">>
FirstLine == <<"1","."," ","F","i","r","s","t">>
FirstAgain == <<"1","."," ","F","i","r","s","t"," ","a","g","a","i","n">>
MaximumMarks80 == <<"M","a","x","i","m","u","m"," ","M","a","r","k","s",":"," ","8","0">>
MaximumMarks800 == <<"M","a","x","i","m","u","m"," ","M","a","r","k","s",":"," ","8","0","0">>
MarksColon5 == <<"M","a","r","k","s",":"," ","5">>
MarksColon50 == <<"M","a","r","k","s",":"," ","5","0">>

\* The lines of the document that make a question: not empty, no page
\* break, and matched by a marker pattern.
MarkerLines == { j \in 1..Len(lines) : FactsTable[lines[j]].pattern # 0 }
\* The marker line the record of question number id was made of: the first
\* one detectQuestions gives that number.
LineOfQuestion(id) ==
  Least({ j \in MarkerLines : FactsTable[lines[j]].questionNumber = id })

\* The canonical id of a marker line: the format of its pattern applied to
\* the number and letter the pattern's groups capture on the line.
Captures(line, re) ==
  [k \in 1..Len(re.groups) |->
     Capture(line, ExecFrom(re, line, 1), re.groups[k])]
CanonicalId(line) ==
  IF FirstPattern(line) = 0 THEN Undefined
  ELSE PatternFormat(FirstPattern(line),
         Captures(line, QUESTION_PATTERNS[FirstPattern(line)].regex))
CanonicalTable == [raw \in CorpusLines |-> CanonicalId(Trim(raw))]

\* The page-break lines of the input: the lines the page-break heuristic
\* matches as they stand.
BreakTable == [raw \in CorpusLines |-> isPageBreak(raw)]
BreaksBefore(j) == Cardinality({ k \in 1..(j - 1) : BreakTable[lines[k]] })

\* The line j of the input and the two after it.
ThreeLinesFrom(j) ==
  [k \in 1..Min(3, Len(lines) - j + 1) |-> lines[j + k - 1]]

\* Every record detectQuestions holds, parsePDFQuestions returned or the
\* route answered.
RecordsOf(qs) == { qs[n] : n \in 1..Len(qs) }
AllRecords ==
  RecordsOf(questions) \cup RecordsOf(parseResult.questions)
    \cup (IF response.status = 200 THEN RecordsOf(response.questions) ELSE {})

\* C5 as claimed: the questionNumber of a record is the canonical id built
\* from the number and letter captured on its marker line, and its
\* confidence is that of the pattern; the line "1(a). Solve for x" makes
\* the record "1(a)", "Solve for x", high.
C5_CanonicalQuestionNumber ==
  /\ \A q \in AllRecords :
       q.questionNumber = CanonicalTable[lines[LineOfQuestion(q.questionNumber)]]
  /\ pc = "parsed" /\ lines = <<SolveForX>> =>
       /\ Len(parseResult.questions) = 1
       /\ parseResult.questions[1].questionNumber = <<"1","(","a",")">>
       /\ parseResult.questions[1].questionText
            = <<"S","o","l","v","e"," ","f","o","r"," ","x">>
       /\ parseResult.questions[1].confidence = "high"

\* C6 as claimed: when two or more marker lines have the same canonical
\* id, parse keeps exactly one record of that id, that of the first such
\* line, and the curated output of the route holds exactly one record of
\* that id, with the first line's questionText.
RepeatedCanonicalIds ==
  { CanonicalTable[lines[j]] : j \in
      { j \in MarkerLines : \E k \in MarkerLines :
          k # j /\ CanonicalTable[lines[k]] = CanonicalTable[lines[j]] } }
FirstLineOfCanonical(id) ==
  Least({ j \in MarkerLines : CanonicalTable[lines[j]] = id })
C6_FirstMarkerLineWins ==
  pc = "done" /\ response.status = 200 =>
    \A id \in RepeatedCanonicalIds :
      /\ Cardinality(Occurrences(parseResult.questions, id)) = 1
      /\ Cardinality(Occurrences(response.questions, id)) = 1
      /\ FirstOf(response.questions, id).questionText
           = FactsTable[lines[FirstLineOfCanonical(id)]].questionText

\* C7: the pageNumber of every record is 1 plus the number of page-break
\* lines that precede its marker line, hence at least 1; a question after
\* a single "Page 2" line is on page 2.
C7_PageNumber ==
  \A q \in AllRecords :
    /\ q.pageNumber = 1 + BreaksBefore(LineOfQuestion(q.questionNumber))
    /\ q.pageNumber >= 1
\* C7 happens: "Page 2" then "Q3 Explain gravity", and the record of that
\* question is on page 2.
C7_Witness ==
  /\ pc = "parsed"
  /\ lines = <<Page2, ExplainGravity>>
  /\ Len(parseResult.questions) = 1
  /\ parseResult.questions[1].pageNumber = 2

\* C8: the marks of a record are the marks allocation found in its marker
\* line and the next two input lines taken together: "5 marks" two lines
\* after "1(a). Solve for x" gives marks 5, and "5 marks" three lines after
\* a marker line gives that record no marks.
C8_MarksFromThreeLines ==
  /\ \A q \in AllRecords :
       q.marks = MarksTable[ThreeLinesFrom(LineOfQuestion(q.questionNumber))]
  /\ pc = "parsed" /\ lines = <<SolveForX, <<>>, FiveMarks>> =>
       parseResult.questions[1].marks = 5
  /\ pc = "parsed" /\ lines = <<FirstLine, <<>>, <<>>, FiveMarks>> =>
       parseResult.questions[1].marks = UndefinedNum
\* C8 happens: "1(a). Solve for x", an empty line, "5 marks", and the
\* record has marks 5.
C8_Witness ==
  /\ pc = "parsed"
  /\ lines = <<SolveForX, <<>>, FiveMarks>>
  /\ Len(parseResult.questions) = 1
  /\ parseResult.questions[1].marks = 5

\* text contains the string sub.
Contains(text, sub) ==
  \E p \in 1..(Len(text) - Len(sub) + 1) :
    SubSeq(text, p, p + Len(sub) - 1) = sub
\* The line names marks: it contains "mark" in either case.
NamesMarks(line) == RegExpTest(Unanchored(MarksWord, <<>>), line)
\* label is a line of text and no other line of text names marks.
OnlyMarksLabel(text, label) ==
  \E j \in 1..Len(Split(text)) :
    /\ Split(text)[j] = label
    /\ \A k \in 1..Len(Split(text)) : k # j => ~NamesMarks(Split(text)[k])
\* The first line of text that begins with "Maximum" is label.
IsMaximumLine(line) ==
  Len(line) >= 7 /\ SubSeq(line, 1, 7) = <<"M","a","x","i","m","u","m">>
FirstMaximumLabel(text, label) ==
  \E j \in 1..Len(Split(text)) :
    /\ Split(text)[j] = label
    /\ \A k \in 1..(j - 1) : ~IsMaximumLine(Split(text)[k])

\* C9 as claimed: on a text that contains "Maximum Marks: 80"
\* extractTotalMarks returns 80, and on a text whose only marks label is
\* "Marks: 5" it returns 5.
C9_ScenarioFour ==
  pc = "returned" =>
    /\ Contains(metaText, MaximumMarks80) => totalMarks = 80
    /\ OnlyMarksLabel(metaText, MarksColon5) => totalMarks = 5
\* C9 as amended: on a text whose first "Maximum Marks" label is followed
\* by the number 80 extractTotalMarks returns 80; on a text whose only
\* marks label is "Marks: 5" it returns nothing, 5 being below 10; on a
\* text whose only marks label is "Marks: 50" it returns 50, through the
\* lower-priority pattern.
C9_ScenarioFourInRange ==
  pc = "returned" =>
    /\ FirstMaximumLabel(metaText, MaximumMarks80) => totalMarks = 80
    /\ OnlyMarksLabel(metaText, MarksColon5) => totalMarks = UndefinedNum
    /\ OnlyMarksLabel(metaText, MarksColon50) => totalMarks = 50
\* C9 happens: the text "Marks: 5", of which nothing is returned.
C9_Witness ==
  /\ pc = "returned"
  /\ metaText = MarksColon5
  /\ totalMarks = UndefinedNum

\* C10: extractTotalMarks returns nothing or an integer in [10,500]: a
\* captured number outside [10,500] is never returned.
C10_TotalMarksInRange ==
  pc = "returned" =>
    totalMarks = UndefinedNum \/ (totalMarks >= 10 /\ totalMarks <= 500)
\* C10 happens: the text "Maximum Marks: 800", whose number is captured
\* and not returned.
C10_Witness ==
  /\ pc = "returned"
  /\ metaText = MaximumMarks800
  /\ totalMarks = UndefinedNum

TotalMarks100 == <<"T","o","t","a","l"," ","M","a","r","k","s",":"," ","1","0","0">>
MaximumMarksLower9 == <<"M","a","x","i","m","u","m"," ","m","a","r","k","s"," ","9">>
\* label is a line of text.
HasLine(text, label) == \E j \in 1..Len(Split(text)) : Split(text)[j] = label

\* C25: on a text with the line "Maximum Marks: 80" and the line
\* "Total Marks: 100", both numbers in [10,500], extractTotalMarks returns
\* 80, whichever of the two lines comes first.
C25_MaximumBeforeTotal ==
  pc = "returned" =>
    (HasLine(metaText, MaximumMarks80) /\ HasLine(metaText, TotalMarks100)
       => totalMarks = 80)

\* sub is what is left of whole when some of its records are taken out: the
\* records of sub are records of whole, met in the same order.
RECURSIVE IsSubsequence(_, _)
IsSubsequence(sub, whole) ==
  IF sub = <<>> THEN TRUE
  ELSE IF whole = <<>> THEN FALSE
  ELSE IF Head(sub) = Head(whole) THEN IsSubsequence(Tail(sub), Tail(whole))
  ELSE IsSubsequence(sub, Tail(whole))

\* C26: the list cleanQuestions returns is its input with some records
\* taken out: each record of the output is a record of the input, all its
\* fields as they were, none is added, and the records left stand in the
\* order they had in the input.
C26_OrderPreservingSubsequence ==
  /\ pc \in {"cleaned", "recleaned"} =>
       /\ IsSubsequence(cleaned, cleanInput)
       /\ \A n \in 1..Len(cleaned) :
            \E m \in 1..Len(cleanInput) : cleaned[n] = cleanInput[m]
  /\ pc = "recleaned" => IsSubsequence(recleaned, cleaned)
\* C26 happens: the input "2", "0", "1": the record "0" is taken out and
\* "2" stays before "1".
C26_Witness ==
  /\ pc = "cleaned"
  /\ Len(cleanInput) = 3
  /\ cleanInput[1].questionNumber = <<"2">>
  /\ cleanInput[2].questionNumber = <<"0">>
  /\ cleanInput[3].questionNumber = <<"1">>
  /\ cleanInput[1].questionText = <<"a","b","c">>
  /\ cleanInput[3].questionText = Undefined
  /\ cleaned = <<cleanInput[1], cleanInput[3]>>

\* The text of a record is present and shorter than 3 characters.
ShortText(q) ==
  q.questionText \notin {Undefined, <<>>} /\ Len(q.questionText) < 3
\* C11: the false-positive filter of cleanQuestions drops every record
\* whose questionText is present and shorter than 3 characters, and keeps
\* every record that reaches it (the first of its questionNumber) with an
\* absent or empty questionText and a numeric id in [1,100].
C11_ShortTextFiltered ==
  pc \in {"cleaned", "recleaned"} =>
    /\ \A n \in 1..Len(cleanInput) :
         ShortText(cleanInput[n]) =>
           \A m \in 1..Len(cleaned) : cleaned[m] # cleanInput[n]
    /\ \A n \in 1..Len(cleanInput) :
         /\ n = Least(Occurrences(cleanInput, cleanInput[n].questionNumber))
         /\ cleanInput[n].questionText \in {Undefined, <<>>}
         /\ IdInRange(cleanInput[n].questionNumber)
         => \E m \in 1..Len(cleaned) : cleaned[m] = cleanInput[n]
\* C11 happens: question "1" with an empty text and question "2" without
\* text are kept, question "1(a)" with the text "ab" is dropped.
C11_Witness ==
  /\ pc = "cleaned"
  /\ Len(cleanInput) = 3
  /\ cleanInput[1].questionNumber = <<"1">>
  /\ cleanInput[1].questionText = <<>>
  /\ cleanInput[2].questionNumber = <<"1","(","a",")">>
  /\ cleanInput[2].questionText = <<"a","b">>
  /\ cleanInput[3].questionNumber = <<"2">>
  /\ cleanInput[3].questionText = Undefined
  /\ cleaned = <<cleanInput[1], cleanInput[3]>>

\* The first question pattern that matches each line once trimmed, 0 if
\* none does.
PatternTable == [raw \in CorpusLines |-> FirstPattern(Trim(raw))]
\* No line of the text matches a question pattern.
NoMarkers == \A j \in 1..Len(lines) : PatternTable[lines[j]] = 0

C13_OnlyExtractionFails ==
  /\ buffer.corrupt =>
       /\ pc \in {"start", "failed"}
       /\ parseResult = NoResult
       /\ pc = "failed" => extractions = 1 /\ response.status = 500
  /\ ~buffer.corrupt =>
       /\ pc # "failed"
       /\ extractions <= 1
       /\ pc \in {"parsed", "done"} =>
            parseResult.totalQuestions = Len(parseResult.questions)
\* C13 happens: the extractor failed and the request was answered 500
\* without a ParseResult.
C13_Witness ==
  /\ pc = "failed"
  /\ buffer.corrupt
  /\ extractions = 1
  /\ parseResult = NoResult

(***************************************************************************)
(* Calls of parsePDFQuestions that run at the same time: each is           *)
(* suspended at await PDFParser(buffer), and once the promise settles the  *)
(* rest of the call runs to its return without interruption.               *)
(***************************************************************************)
\* The most calls.
MaxCalls == 3
Calls == 1..MaxCalls
\* The texts of the documents of the calls:
\*   "1(a). Solve for x\n\n5 marks"
\*   "Page 2\nQ3 Explain gravity"
\*   "1. First\n1. First again"
CallTexts ==
  { Join(<<SolveForX, <<>>, FiveMarks>>, <<"\n">>),
    Join(<<Page2, ExplainGravity>>, <<"\n">>),
    Join(<<FirstLine, FirstAgain>>, <<"\n">>) }
\* What PDFParser yields of a buffer: a text and a page count, or a throw.
NoData == [corrupt |-> TRUE, text |-> <<>>, numpages |-> 0]
CallData ==
  [corrupt : {FALSE}, text : CallTexts, numpages : PageCounts]
    \cup {NoData}

\* new Map() at the entry of detectQuestions.
LeftoverMap(c) ==
  IF \E d \in Calls : d # c /\ callPc[d] = "returned"
  THEN callLocals[CHOOSE d \in Calls : d # c /\ callPc[d] = "returned"]
         .questions
  ELSE <<>>
EntryMap(c) == <<>>
\* let currentPage = 1 at the entry of detectQuestions.
LeftoverPage(c) ==
  IF \E d \in Calls : d # c /\ callPc[d] = "returned"
  THEN callLocals[CHOOSE d \in Calls : d # c /\ callPc[d] = "returned"]
         .currentPage
  ELSE 1
EntryPage(c) == 1

\* line.match(pattern.regex) and line.replace(pattern.regex, '') of a g
\* expression set its lastIndex to 0 before they search and leave it at 0:
\* the lastIndex of the patterns tried on a line, the first n of them.
AfterMatches(li, n) ==
  [k \in 1..Len(li) |-> IF k <= n THEN 0 ELSE li[k]]
PatternsTried(facts) ==
  IF facts.pattern = 0 THEN Len(QUESTION_PATTERNS) ELSE facts.pattern

\* detectQuestions from the line at index at on, with the page counter,
\* the Map and the lastIndex of the patterns as they stand: the Map and
\* the page counter at the end of the loop, and the lastIndex left.
RECURSIVE DetectFrom(_, _, _, _, _)
DetectFrom(ls, at, page, qs, li) ==
  IF at >= Len(ls)
  THEN [questions |-> qs, currentPage |-> page, lastIndex |-> li]
  ELSE IF FactsTable[ls[at + 1]].empty
  THEN DetectFrom(ls, at + 1, page, qs, li)
  ELSE IF FactsTable[ls[at + 1]].pageBreak
  THEN DetectFrom(ls, at + 1, page + 1, qs, li)
  ELSE IF FactsTable[ls[at + 1]].pattern = 0
            \/ MapHas(qs, FactsTable[ls[at + 1]].questionNumber)
  THEN DetectFrom(ls, at + 1, page, qs,
                  AfterMatches(li, PatternsTried(FactsTable[ls[at + 1]])))
  ELSE DetectFrom(ls, at + 1, page, Append(qs, NewQuestion(ls, at, page)),
                  AfterMatches(li, PatternsTried(FactsTable[ls[at + 1]])))

\* The ParseResult parsePDFQuestions returns of data once detectQuestions
\* has left locals.
ResultOf(data, locals) ==
  [totalQuestions |-> Len(locals.questions),
   questions      |-> SortQuestions(locals.questions),
   totalPages     |-> data.numpages,
   text           |-> data.text]

NoLocals == [questions |-> <<>>, currentPage |-> 1]

InitCalls ==
  /\ pc = "calls"
  /\ callPc = [c \in Calls |-> "idle"]
  /\ callData \in [Calls -> CallData]
  /\ callLocals = [c \in Calls |-> NoLocals]
  /\ callResult = [c \in Calls |-> NoResult]
  /\ lastIndex = <<0, 0, 0, 0, 0>>
  /\ RouteIdle
  /\ CleanIdle
  /\ MetaIdle
  /\ MarksIdle
  /\ TimeIdle
  /\ PayIdle
  /\ WizardIdle

\* parsePDFQuestions(buffer) is called and waits for PDFParser(buffer).
Call(c) ==
  /\ callPc[c] = "idle"
  /\ callPc' = [callPc EXCEPT ![c] = "awaiting"]
  /\ UNCHANGED <<pc, callData, callLocals, callResult, lastIndex,
                 routeVars, cleanVars, metaVars,
                 marksVars, timeVars,
                 payVars, wizardVars>>

\* The promise is fulfilled: the text is split, detectQuestions runs and
\* the call returns.
Resolve(c) ==
  /\ callPc[c] = "awaiting"
  /\ ~callData[c].corrupt
  /\ callPc' = [callPc EXCEPT ![c] = "returned"]
  /\ \E walk \in { DetectFrom(Split(callData[c].text), 0, EntryPage(c),
                              EntryMap(c), lastIndex) } :
       /\ callLocals' = [callLocals EXCEPT
                           ![c] = [questions   |-> walk.questions,
                                   currentPage |-> walk.currentPage]]
       /\ callResult' = [callResult EXCEPT ![c] = ResultOf(callData[c], walk)]
       /\ lastIndex' = walk.lastIndex
  /\ UNCHANGED <<pc, callData, routeVars, cleanVars, metaVars,
                 marksVars, timeVars,
                 payVars, wizardVars>>

\* The promise is rejected: the call throws 'Failed to parse PDF file'.
Reject(c) ==
  /\ callPc[c] = "awaiting"
  /\ callData[c].corrupt
  /\ callPc' = [callPc EXCEPT ![c] = "failed"]
  /\ UNCHANGED <<pc, callData, callLocals, callResult, lastIndex,
                 routeVars, cleanVars, metaVars,
                 marksVars, timeVars,
                 payVars, wizardVars>>

NextCalls ==
  \E c \in Calls :
    \/ Call(c)
    \/ Resolve(c)
    \/ Reject(c)

SpecCalls == InitCalls /\ [][NextCalls]_vars

\* What a call of parsePDFQuestions returns of data when it is the only
\* call there ever was.
ParseAlone(data) ==
  ResultOf(data, DetectFrom(Split(data.text), 0, 1, <<>>, <<0, 0, 0, 0, 0>>))
AloneTable == [data \in CallData \ {NoData} |-> ParseAlone(data)]

C15_NoInterference ==
  /\ \A c \in Calls :
       /\ callPc[c] = "returned" => callResult[c] = AloneTable[callData[c]]
       /\ callPc[c] = "failed" => callData[c].corrupt
       /\ callPc[c] # "returned" => callResult[c] = NoResult
  /\ \A k \in 1..Len(lastIndex) : lastIndex[k] = 0
\* C15 happens: call 2, on "Page 2\nQ3 Explain gravity", returned its
\* question on page 2 while call 1, on another text, was waiting.
C15_Witness ==
  /\ callPc[1] = "awaiting"
  /\ callPc[2] = "returned"
  /\ callData[1].text = Join(<<SolveForX, <<>>, FiveMarks>>, <<"\n">>)
  /\ callData[2].text = Join(<<Page2, ExplainGravity>>, <<"\n">>)
  /\ callResult[2].totalQuestions = 1
  /\ callResult[2].questions[1].pageNumber = 2

\* "2. B\r3. C" and "(b) ab"
TwoInOneLine == <<"2","."," ","B","\r","3","."," ","C">>
SubQuestionLine == <<"(","b",")"," ","a","b">>

\* C16 as claimed: the questions parse returns are in first-seen order: of
\* any two, the one whose marker line comes earlier in the text stands
\* first.
C16_FirstSeenOrder ==
  pc \in {"parsed", "done"} =>
    \A m, n \in 1..Len(parseResult.questions) :
      LineOfQuestion(parseResult.questions[m].questionNumber)
        < LineOfQuestion(parseResult.questions[n].questionNumber)
      => m < n
\* The sort keys of a question number are those of another.
SameKeys(a, b) == NumericId(a) = NumericId(b) /\ SubRank(a) = SubRank(b)
\* C16 as amended: the questions parse returns are the records of the
\* walk sorted by question number, the lesser numeric id first and, of
\* equal numeric ids, the one without sub-part before those with one and
\* those by their letter; first-seen order is kept among the records the
\* sort takes for equal.
C16_SortedThenFirstSeen ==
  pc \in {"parsed", "done"} =>
    /\ Ordered(parseResult.questions)
    /\ RecordsOf(parseResult.questions) = RecordsOf(questions)
    /\ Len(parseResult.questions) = Len(questions)
    /\ \A m, n \in 1..Len(parseResult.questions) :
         /\ SameKeys(parseResult.questions[m].questionNumber,
                     parseResult.questions[n].questionNumber)
         /\ LineOfQuestion(parseResult.questions[m].questionNumber)
              < LineOfQuestion(parseResult.questions[n].questionNumber)
         => m < n
\* C16 happens: the line "2. B\r3. C" makes the question "3. ", and the
\* later line "(b) ab" makes a question without a number, which is
\* returned first.
C16_Witness ==
  /\ pc = "parsed"
  /\ lines = <<TwoInOneLine, SubQuestionLine>>
  /\ Len(parseResult.questions) = 2
  /\ parseResult.questions[1].questionText = <<"a","b">>
  /\ parseResult.questions[2].questionNumber = <<"3","."," ">>

\* The page-break lines of the whole text.
PageBreakLines == BreaksBefore(Len(lines) + 1)
\* C17 as claimed: the totalPages parse returns is the page counter at the
\* end of the walk, 1 plus the number of page-break lines of the text, and
\* the pageNumber of every record is at most totalPages.
C17_TotalPagesIsPageCounter ==
  pc \in {"parsed", "done"} =>
    /\ parseResult.totalPages = currentPage
    /\ parseResult.totalPages = 1 + PageBreakLines
    /\ \A q \in RecordsOf(parseResult.questions) :
         q.pageNumber <= parseResult.totalPages
\* C17 as amended: the totalPages parse returns is the page count the
\* extractor reports, whatever the page-break lines of the text, and the
\* route answers it; the page counter of the walk ends at 1 plus the
\* number of page-break lines and bounds the pageNumber of every record.
C17_TotalPagesIsNumpages ==
  pc \in {"parsed", "done"} =>
    /\ parseResult.totalPages \in PageCounts
    /\ currentPage = 1 + PageBreakLines
    /\ \A q \in RecordsOf(parseResult.questions) :
         q.pageNumber <= currentPage
    /\ pc = "done" => response.totalPages = parseResult.totalPages
\* C17 happens: a document of one page whose text is
\* "Page 2\nQ3 Explain gravity": the question is on page 2 of 1.
C17_Witness ==
  /\ pc = "parsed"
  /\ lines = <<Page2, ExplainGravity>>
  /\ currentPage = 2
  /\ parseResult.totalPages = 1
  /\ parseResult.questions[1].pageNumber = 2

\* "3.": a question marker and nothing after it.
MarkerOnlyLine == <<"3",".">>
\* C18 as claimed: a line that is a question marker and no more, with no
\* marks number on it or on the next two lines, makes a record, whose
\* questionText and marks are absent.
C18_MarkerOnlyRecord ==
  pc \in {"parsed", "done"} =>
    \A j \in 1..Len(lines) :
      lines[j] = MarkerOnlyLine /\ MarksTable[ThreeLinesFrom(j)] = UndefinedNum
      => \E q \in RecordsOf(parseResult.questions) :
           /\ q.questionText = Undefined
           /\ q.marks = UndefinedNum

(***************************************************************************)
(* extractMarks called on any lines.                                       *)
(***************************************************************************)
\* The most lines of a call of extractMarks.
MaxMarksLines == 3
\* The lines of the calls:
\*   "1. First"
\*   "5 marks"
\*   "150 marks"
\*   "0 marks"
\*   "(5)"
\*   "[101]"
\*   "Marks: 7"
\*   "[4]"
MarksCorpus ==
  { FirstLine,
    FiveMarks,
    <<"1","5","0"," ","m","a","r","k","s">>,
    <<"0"," ","m","a","r","k","s">>,
    <<"(","5",")">>,
    <<"[","1","0","1","]">>,
    <<"M","a","r","k","s",":"," ","7">>,
    <<"[","4","]">> }
MarksInputs == LinesUpTo(MaxMarksLines, MarksCorpus)

InitMarks ==
  /\ pc = "marks"
  /\ marksLines \in MarksInputs
  /\ foundMarks = UndefinedNum
  /\ RouteIdle
  /\ CleanIdle
  /\ MetaIdle
  /\ CallIdle
  /\ TimeIdle
  /\ PayIdle
  /\ WizardIdle

\* extractMarks(marksLines)
Marks ==
  /\ pc = "marks"
  /\ pc' = "returned"
  /\ foundMarks' = extractMarks(marksLines)
  /\ UNCHANGED <<marksLines, routeVars, cleanVars, metaVars, callVars,
                 timeVars,
                 payVars, wizardVars>>

NextMarks == Marks

SpecMarks == InitMarks /\ [][NextMarks]_vars

\* The numbers the patterns of MARKS_PATTERNS capture in the joined lines,
\* each pattern at its first match.
CapturedMarks(ls) ==
  { ParseInt(StringMatch(Join(ls, <<" ">>), MARKS_PATTERNS[n])[2]) :
      n \in { k \in 1..Len(MARKS_PATTERNS) :
                StringMatch(Join(ls, <<" ">>), MARKS_PATTERNS[k]) # Null } }
OutOfRange(n) == ~(n > 0 /\ n <= 100)

\* C19 as claimed: when a marks pattern matches in the lines and the
\* number it captures is outside (0,100], the marks are absent.
C19_OutOfRangeIsAbsent ==
  pc = "returned" =>
    ((\E n \in CapturedMarks(marksLines) : OutOfRange(n))
       => foundMarks = UndefinedNum)
\* C19 as amended: a captured number outside (0,100] is never the marks:
\* the marks are a captured number in (0,100] when a pattern captures one
\* and absent otherwise, and no call fails.
C19_OutOfRangeIsSkipped ==
  pc = "returned" =>
    /\ foundMarks # UndefinedNum =>
         foundMarks \in CapturedMarks(marksLines) /\ ~OutOfRange(foundMarks)
    /\ foundMarks = UndefinedNum =>
         \A n \in CapturedMarks(marksLines) : OutOfRange(n)
\* C19 happens: "150 marks" followed by "(5)": 150 is captured and passed
\* over, and the marks are 5.
C19_Witness ==
  /\ pc = "returned"
  /\ marksLines = << <<"1","5","0"," ","m","a","r","k","s">>, <<"(","5",")">> >>
  /\ foundMarks = 5

\* The number the n-th pattern of MARKS_PATTERNS captures in text at its
\* first match; none if it does not match.
PatternCapture(text, n) ==
  IF StringMatch(text, MARKS_PATTERNS[n]) = Null THEN UndefinedNum
  ELSE ParseInt(StringMatch(text, MARKS_PATTERNS[n])[2])
\* The patterns, by their place in the priority order, that capture a
\* number in (0,100] in text.
PatternsInRange(text) ==
  { n \in 1..Len(MARKS_PATTERNS) :
      PatternCapture(text, n) # UndefinedNum
        /\ PatternCapture(text, n) \in 1..100 }
MarksColon7 == <<"M","a","r","k","s",":"," ","7">>
Paren5 == <<"(","5",")">>
Bracket4 == <<"[","4","]">>

\* C24: the marks found in the lines are the number captured by the first
\* pattern, in the order "<n> marks", "(<n> marks)", "[<n> marks]",
\* "marks: <n>", "(<n>)", "[<n>]", whose captured number is in (0,100], and
\* absent when no pattern captures such a number: absent or an integer in
\* [1,100].  "<n> marks" wins over "marks: <n>", "marks: <n>" over "(<n>)"
\* and "(<n>)" over "[<n>]", whichever stands first in the lines.
C24_FirstPatternInRange ==
  pc = "returned" =>
    /\ foundMarks =
         IF PatternsInRange(Join(marksLines, <<" ">>)) = {} THEN UndefinedNum
         ELSE PatternCapture(Join(marksLines, <<" ">>),
                             Least(PatternsInRange(Join(marksLines, <<" ">>))))
    /\ foundMarks = UndefinedNum \/ foundMarks \in 1..100
    /\ marksLines = <<MarksColon7, FiveMarks>> => foundMarks = 5
    /\ marksLines = <<Paren5, MarksColon7>> => foundMarks = 7
    /\ marksLines = <<Bracket4, Paren5>> => foundMarks = 5
\* C24 happens: "[4]", "(5)", "Marks: 7": three patterns capture a number
\* in range, the fourth in the order is the first of them and the marks
\* are 7.
C24_Witness ==
  /\ pc = "returned"
  /\ marksLines = <<Bracket4, Paren5, MarksColon7>>
  /\ PatternsInRange(Join(marksLines, <<" ">>)) = {4, 5, 6}
  /\ foundMarks = 7

(***************************************************************************)
(* extractTimeDuration called on any text.                                 *)
(***************************************************************************)
\* The most lines of a text.
MaxTimeLines == 2
\* The lines of the texts:
\*   "Time: 3 Hours"
\*   "Time: 1 Hour"
\*   "Duration: 2 hour"
\*   "Duration : 8 HOURS"
\*   "Time: 9 Hours"
\*   "time:0hours"
\*   "Time: 12 Hours"
\*   "Time: 90 minutes"
\*   "Section A"
TimeLines ==
  {
    <<"T","i","m","e",":"," ","3"," ","H","o","u","r","s">>,
    <<"T","i","m","e",":"," ","1"," ","H","o","u","r">>,
    <<"D","u","r","a","t","i","o","n",":"," ","2"," ","h","o","u","r">>,
    <<"D","u","r","a","t","i","o","n"," ",":"," ","8"," ","H","O","U","R","S">>,
    <<"T","i","m","e",":"," ","9"," ","H","o","u","r","s">>,
    <<"t","i","m","e",":","0","h","o","u","r","s">>,
    <<"T","i","m","e",":"," ","1","2"," ","H","o","u","r","s">>,
    <<"T","i","m","e",":"," ","9","0"," ","m","i","n","u","t","e","s">>,
    <<"S","e","c","t","i","o","n"," ","A">>
  }
TimeTexts == { Join(ls, <<"\n">>) : ls \in LinesUpTo(MaxTimeLines, TimeLines) }

InitTime ==
  /\ pc = "time"
  /\ timeText \in TimeTexts
  /\ timeDuration = UndefinedNum
  /\ RouteIdle
  /\ CleanIdle
  /\ MetaIdle
  /\ CallIdle
  /\ MarksIdle
  /\ PayIdle
  /\ WizardIdle

\* extractTimeDuration(timeText)
TimeDuration ==
  /\ pc = "time"
  /\ pc' = "returned"
  /\ timeDuration' = extractTimeDuration(timeText)
  /\ UNCHANGED <<timeText, routeVars, cleanVars, metaVars, callVars,
                 marksVars,
                 payVars, wizardVars>>

NextTime == TimeDuration

SpecTime == InitTime /\ [][NextTime]_vars

\* The hour counts the patterns of extractTimeDuration capture in text,
\* each pattern at its first match.
CapturedHours(text) ==
  { ParseInt(StringMatch(text, TimePatterns[n])[2]) :
      n \in { k \in 1..Len(TimePatterns) :
                StringMatch(text, TimePatterns[k]) # Null } }

\* C20: extractTimeDuration returns nothing or 60 times an hour count in
\* [1,8] captured after a "Time" or "Duration" label: one of 60, 120, ...,
\* 480; a captured hour count outside [1,8] is never returned.
C20_DurationInRange ==
  pc = "returned" =>
    \/ timeDuration = UndefinedNum
    \/ /\ timeDuration \in { 60 * h : h \in 1..8 }
       /\ \E h \in CapturedHours(timeText) : timeDuration = 60 * h
\* C20 happens: "Time: 9 Hours" followed by "Duration: 2 hour": the 9 is
\* captured and not returned, and the duration is 120 minutes.
C20_Witness ==
  /\ pc = "returned"
  /\ timeText = Join(<<<<"T","i","m","e",":"," ","9"," ","H","o","u","r","s">>,
                       <<"D","u","r","a","t","i","o","n",":"," ","2"," ","h","o","u","r">>>>, <<"\n">>)
  /\ timeDuration = 120

\* The question number has no digit.
NoDigit(id) == \A n \in 1..Len(id) : id[n] \notin Digit

\* C27: a record whose questionNumber has no digit has the numeric key 0,
\* and the questions the route answers with hold no such record, whatever
\* its text, marks or confidence.
C27_NoDigitNeverReturned ==
  /\ \A q \in AllRecords :
       NoDigit(q.questionNumber) => NumericId(q.questionNumber) = 0
  /\ pc = "done" /\ response.status = 200 =>
       \A q \in RecordsOf(response.questions) : ~NoDigit(q.questionNumber)
\* C27 happens: of "2. B\r3. C" and "(b) ab" parsePDFQuestions returns
\* two records, one with a digit in its questionNumber and one without,
\* which has a text and the confidence medium; the route answers with the
\* first alone.
C27_Witness ==
  /\ pc = "done"
  /\ lines = <<TwoInOneLine, SubQuestionLine>>
  /\ Len(parseResult.questions) = 2
  /\ \E q \in RecordsOf(parseResult.questions) :
       /\ NoDigit(q.questionNumber)
       /\ q.questionText = <<"a","b">> \/ q.confidence = "medium"
  /\ Len(response.questions) = 1
  /\ ~NoDigit(response.questions[1].questionNumber)

(***************************************************************************)
(* Page-break lines and empty lines in the loop of detectQuestions.        *)
(***************************************************************************)
FindYBracket4 == <<"2","."," ","F","i","n","d"," ","y"," ","[","4","]">>
\* The lines that are empty once trimmed, and the lines that are not and
\* that the page-break heuristic matches once trimmed.
EmptyLines == { raw \in CorpusLines : Trim(raw) = <<>> }
PageMarkerLines ==
  { raw \in CorpusLines : Trim(raw) # <<>> /\ isPageBreak(Trim(raw)) }
\* The lines that begin as a question marker does: digits and a period, or
\* digits, a letter in parentheses, then white space.
MarkerLikeLines ==
  { raw \in CorpusLines :
      \/ RegExpTest(RegExp(<<Plus(Digit), One({"."}), Plus(WhiteSpace)>>,
                           <<>>, TRUE, FALSE, FALSE, FALSE), raw)
      \/ RegExpTest(RegExp(<<CI("q","Q"), Plus(Digit), Plus(WhiteSpace)>>,
                           <<>>, TRUE, FALSE, FALSE, FALSE), raw) }

\* C23: the step of the loop over a non-empty line the page-break heuristic
\* matches adds exactly one to the page counter and leaves the records as
\* they are, also when the line begins as a question marker; the step over
\* an empty line leaves the page counter and the records as they are.
C23_PageBreakConsumed ==
  [][pc = "detect" /\ i < Len(lines) /\ i' = i + 1 =>
       /\ lines[i + 1] \in PageMarkerLines =>
            currentPage' = currentPage + 1 /\ questions' = questions
       /\ lines[i + 1] \in EmptyLines =>
            currentPage' = currentPage /\ questions' = questions]_vars
\* C23 happens: "2. Find y [4]" begins as a question marker and holds a
\* page number in brackets; the loop has passed it, the page counter is 2
\* and there is no record.
C23_Witness ==
  /\ pc = "detect"
  /\ lines = <<FindYBracket4, <<>>>>
  /\ i = 2
  /\ FindYBracket4 \in PageMarkerLines \cap MarkerLikeLines
  /\ currentPage = 2
  /\ questions = <<>>

(***************************************************************************)
(* The payment routes, POST /api/payment/create-order and                  *)
(* POST /api/payment/verify: requests of any users under way at once, each *)
(* await of a database or Razorpay call a step of its own.                 *)
(***************************************************************************)
\* The most requests that reach the database.
MaxRequests == 4

\* session.user.id of the sessions, and a request without session.
Users == {"u1", "u2"}
NoSession == "none"
Sessions == Users \cup {NoSession}
\* The _id of the documents of the Paper collection, and an id of none.
Papers == {"p1"}
UnknownPaper == "p0"
\* paper.price
Price == [p \in Papers |-> 49]
\* paperId in the body of a create-order request; "" when it is missing.
PaperIds == {"", UnknownPaper} \cup Papers

\* order.id of the n-th order of Razorpay and the id of its payment.
NumberChars == <<"1","2","3","4","5","6","7","8","9">>
OrderId(n) == <<"o","r","d","e","r","_", NumberChars[n]>>
PaymentId(n) == <<"p","a","y","_", NumberChars[n]>>

\* process.env.RAZORPAY_KEY_SECRET, and a key that is not the secret.
KeySecret == "key_secret"
OtherKey == "other_key"
\* crypto.createHmac('sha256', key).update(message).digest('hex'): a value
\* that key and message determine and that differs when either does.
Hmac(key, message) == [key |-> key, message |-> message]
\* A razorpay_signature that is missing.
NoSignature == [key |-> "", message |-> <<>>]
\* razorpay_order_id + '|' + razorpay_payment_id
SignedBody(orderId, paymentId) == orderId \o <<"|">> \o paymentId
\* The signature Razorpay hands the client when order n is paid.
RazorpaySignature(n) == Hmac(KeySecret, SignedBody(OrderId(n), PaymentId(n)))

\* The comparison of the signatures without its negation.
SignatureRejectedWhenEqual(r) ==
  Hmac(KeySecret, SignedBody(r.orderId, r.paymentId)) = r.signature
\* expectedSignature !== razorpay_signature
SignatureRejected(r) ==
  Hmac(KeySecret, SignedBody(r.orderId, r.paymentId)) # r.signature
\* !razorpay_payment_id || !razorpay_order_id || !razorpay_signature
MissingDetails(r) ==
  r.paymentId = <<>> \/ r.orderId = <<>> \/ r.signature = NoSignature

\* $addToSet: { purchasedPapers: paperId }
AddToSet(array, paperId) ==
  IF \E n \in 1..Len(array) : array[n] = paperId THEN array
  ELSE Append(array, paperId)

\* The transactions a filter finds, by their place in the collection.
WithOrderId(orderId) ==
  { n \in 1..Len(transactions) : transactions[n].razorpayOrderId = orderId }
CompletedOf(userId, paperId) ==
  { n \in 1..Len(transactions) :
      /\ transactions[n].userId = userId
      /\ transactions[n].paperId = paperId
      /\ transactions[n].status = "completed" }

\* A request under way and its locals.
Request(kind, at, session, paperId, orderId, paymentId, signature, order) ==
  [kind |-> kind, pc |-> at, session |-> session, paperId |-> paperId,
   orderId |-> orderId, paymentId |-> paymentId, signature |-> signature,
   order |-> order]
\* The request goes on from its next await.
Continue(r, next) ==
  requests' = (requests (-) SetToBag({r})) (+) SetToBag({next})
\* The request returns NextResponse.json(..., { status }) and is over.
Return(r, status) ==
  requests' = requests (-) SetToBag({r})

InitPay ==
  /\ pc = "pay"
  /\ transactions = <<>>
  /\ purchasedPapers = [u \in Users |-> <<>>]
  /\ downloads = [p \in Papers |-> 0]
  /\ orders = 0
  /\ paid = {}
  /\ requests = EmptyBag
  /\ started = 0
  /\ RouteIdle
  /\ CleanIdle
  /\ MetaIdle
  /\ CallIdle
  /\ MarksIdle
  /\ TimeIdle
  /\ WizardIdle

\* create-order up to the query of the transactions: the session (401),
\* the body (400) and Paper.findById (404), which reads what no request
\* writes.  A request that is answered here leaves nothing behind.
CreateOrderRequest(session, paperId) ==
  /\ pc = "pay"
  /\ started < MaxRequests
  /\ IF session = NoSession \/ paperId = "" \/ paperId \notin Papers
     THEN UNCHANGED <<requests, started>>
     ELSE /\ started' = started + 1
          /\ requests' = requests (+)
               SetToBag({Request("create-order", "findTransaction", session,
                                 paperId, <<>>, <<>>, NoSignature, 0)})
  /\ UNCHANGED <<pc, transactions, purchasedPapers, downloads, orders, paid,
                 routeVars, cleanVars, metaVars, callVars, marksVars,
                 timeVars, wizardVars>>

\* const existingTransaction = await Transaction.findOne({ userId, paperId,
\* status: 'completed' });
FindTransaction(r) ==
  /\ r.kind = "create-order"
  /\ r.pc = "findTransaction"
  /\ IF CompletedOf(r.session, r.paperId) # {}
     THEN Return(r, 400)
     ELSE Continue(r, [r EXCEPT !.pc = "createOrder"])
  /\ UNCHANGED <<pc, transactions, purchasedPapers, downloads, orders, paid,
                 started, routeVars, cleanVars, metaVars, callVars,
                 marksVars, timeVars, wizardVars>>

\* const order = await razorpay.orders.create({ ... });
CreateOrder(r) ==
  /\ r.kind = "create-order"
  /\ r.pc = "createOrder"
  /\ orders' = orders + 1
  /\ Continue(r, [r EXCEPT !.pc = "createTransaction", !.order = orders + 1])
  /\ UNCHANGED <<pc, transactions, purchasedPapers, downloads, paid,
                 started, routeVars, cleanVars, metaVars, callVars,
                 marksVars, timeVars, wizardVars>>

\* await Transaction.create({ ..., status: 'pending' }); and the response
\* with the order id.
CreateTransaction(r) ==
  /\ r.kind = "create-order"
  /\ r.pc = "createTransaction"
  /\ transactions' =
       Append(transactions,
              [userId            |-> r.session,
               paperId           |-> r.paperId,
               amount            |-> Price[r.paperId],
               razorpayOrderId   |-> OrderId(r.order),
               razorpayPaymentId |-> <<>>,
               razorpaySignature |-> NoSignature,
               status            |-> "pending"])
  /\ Return(r, 200)
  /\ UNCHANGED <<pc, purchasedPapers, downloads, orders, paid,
                 started, routeVars, cleanVars, metaVars, callVars,
                 marksVars, timeVars, wizardVars>>

\* The client pays in the Razorpay modal an order whose id a response gave
\* it: Razorpay hands it the payment id and the signature.
Pay(n) ==
  /\ pc = "pay"
  /\ WithOrderId(OrderId(n)) # {}
  /\ n \notin paid
  /\ paid' = paid \cup {n}
  /\ UNCHANGED <<pc, transactions, purchasedPapers, downloads, orders,
                 requests, started,
                 routeVars, cleanVars, metaVars, callVars, marksVars,
                 timeVars, wizardVars>>

\* The bodies a client may send once order n is paid: what Razorpay handed
\* it; that with a signature made without the secret, with no signature or
\* with no payment id; and that with the id of another order.
VerifyBodies(n) ==
  { [orderId |-> OrderId(n), paymentId |-> PaymentId(n),
     signature |-> signature] :
      signature \in { RazorpaySignature(n),
                      Hmac(OtherKey, SignedBody(OrderId(n), PaymentId(n))),
                      NoSignature } }
    \cup { [orderId |-> OrderId(n), paymentId |-> <<>>,
            signature |-> RazorpaySignature(n)] }
    \cup { [orderId |-> OrderId(m), paymentId |-> PaymentId(n),
            signature |-> RazorpaySignature(n)] : m \in (1..orders) \ {n} }

\* verify up to await dbConnect(): the session (401), the body (400) and
\* the signature (400).  A request that is answered here leaves nothing
\* behind.
VerifyRequest(session, orderId, paymentId, signature) ==
  /\ pc = "pay"
  /\ started < MaxRequests
  /\ LET r == Request("verify", "updateTransaction", session, "",
                      orderId, paymentId, signature, 0)
     IN  IF session = NoSession \/ MissingDetails(r) \/ SignatureRejected(r)
         THEN UNCHANGED <<requests, started>>
         ELSE /\ started' = started + 1
              /\ requests' = requests (+) SetToBag({r})
  /\ UNCHANGED <<pc, transactions, purchasedPapers, downloads, orders, paid,
                 routeVars, cleanVars, metaVars, callVars, marksVars,
                 timeVars, wizardVars>>

\* const transaction = await Transaction.findOneAndUpdate(
\*   { razorpayOrderId }, { $set: { ..., status: 'completed' } });
UpdateTransaction(r) ==
  /\ r.kind = "verify"
  /\ r.pc = "updateTransaction"
  /\ IF WithOrderId(r.orderId) = {}
     THEN Return(r, 404) /\ UNCHANGED transactions
     ELSE LET n == Least(WithOrderId(r.orderId))
          IN  /\ transactions' =
                   [transactions EXCEPT
                      ![n].razorpayPaymentId = r.paymentId,
                      ![n].razorpaySignature = r.signature,
                      ![n].status = "completed"]
              /\ Continue(r, [r EXCEPT !.pc = "addPaper",
                                       !.paperId = transactions[n].paperId])
  /\ UNCHANGED <<pc, purchasedPapers, downloads, orders, paid,
                 started, routeVars, cleanVars, metaVars, callVars,
                 marksVars, timeVars, wizardVars>>

\* await User.findByIdAndUpdate(session.user.id,
\*   { $addToSet: { purchasedPapers: transaction.paperId } });
AddPaper(r) ==
  /\ r.kind = "verify"
  /\ r.pc = "addPaper"
  /\ purchasedPapers' =
       [purchasedPapers EXCEPT ![r.session] = AddToSet(@, r.paperId)]
  /\ Continue(r, [r EXCEPT !.pc = "incDownloads"])
  /\ UNCHANGED <<pc, transactions, downloads, orders, paid,
                 started, routeVars, cleanVars, metaVars, callVars,
                 marksVars, timeVars, wizardVars>>

\* await Paper.findByIdAndUpdate(transaction.paperId,
\*   { $inc: { downloads: 1 } }); and the response.
IncDownloads(r) ==
  /\ r.kind = "verify"
  /\ r.pc = "incDownloads"
  /\ downloads' = [downloads EXCEPT ![r.paperId] = @ + 1]
  /\ Return(r, 200)
  /\ UNCHANGED <<pc, transactions, purchasedPapers, orders, paid,
                 started, routeVars, cleanVars, metaVars, callVars,
                 marksVars, timeVars, wizardVars>>

\* An awaited call rejects (the database or Razorpay is out of reach): the
\* catch answers 500.
Throw(r) ==
  /\ Return(r, 500)
  /\ UNCHANGED <<pc, transactions, purchasedPapers, downloads, orders, paid,
                 started, routeVars, cleanVars, metaVars, callVars,
                 marksVars, timeVars, wizardVars>>

NextPay ==
  \/ \E session \in Sessions, paperId \in PaperIds :
       CreateOrderRequest(session, paperId)
  \/ \E session \in Sessions, n \in paid :
       \E body \in VerifyBodies(n) :
         VerifyRequest(session, body.orderId, body.paymentId, body.signature)
  \/ \E n \in 1..orders : Pay(n)
  \/ \E r \in BagToSet(requests) :
       \/ FindTransaction(r)
       \/ CreateOrder(r)
       \/ CreateTransaction(r)
       \/ UpdateTransaction(r)
       \/ AddPaper(r)
       \/ IncDownloads(r)
       \/ Throw(r)

SpecPay == InitPay /\ [][NextPay]_vars

\* The request was made by an authenticated user, lacks no field and its
\* razorpay_signature is the HMAC-SHA256 of "order_id|payment_id" under
\* the key secret.
ValidVerify(r) ==
  /\ r.kind = "verify"
  /\ r.session \in Users
  /\ r.orderId # <<>> /\ r.paymentId # <<>> /\ r.signature # NoSignature
  /\ r.signature = [key |-> KeySecret,
                    message |-> r.orderId \o <<"|">> \o r.paymentId]
\* The step is a step of request r.
Acts(r) == CopiesIn(r, requests') < CopiesIn(r, requests)
\* The step completes a transaction, adds a paper to a user's
\* purchasedPapers or increments a paper's downloads counter.
Grants ==
  \/ \E n \in 1..Len(transactions') :
       /\ transactions'[n].status = "completed"
       /\ n <= Len(transactions) => transactions[n].status # "completed"
  \/ purchasedPapers' # purchasedPapers
  \/ downloads' # downloads

C28_OneCompletedPerUserAndPaper ==
  pc = "pay" =>
    \A u \in Users, p \in Papers : Cardinality(CompletedOf(u, p)) <= 1

\* C29: a paper is in a user's purchasedPapers only if a completed
\* transaction has that user's id and that paper's id.
C29_AccessOnlyToBuyer ==
  pc = "pay" =>
    \A u \in Users :
      \A n \in 1..Len(purchasedPapers[u]) :
        CompletedOf(u, purchasedPapers[u][n]) # {}

\* The completed transactions of a paper.
CompletedOfPaper(p) ==
  { n \in 1..Len(transactions) :
      transactions[n].paperId = p /\ transactions[n].status = "completed" }
\* C30: a paper's downloads counter is incremented no more than once for
\* each of its completed transactions, however often the verify request
\* is repeated, and purchasedPapers holds no paper twice.
C30_VerifyIdempotent ==
  pc = "pay" =>
    /\ \A p \in Papers : downloads[p] <= Cardinality(CompletedOfPaper(p))
    /\ \A u \in Users :
         \A m, n \in 1..Len(purchasedPapers[u]) :
           purchasedPapers[u][m] = purchasedPapers[u][n] => m = n

(***************************************************************************)
(* The upload wizard of the admin upload page: its step, and the fields of *)
(* the form its navigation reads.                                          *)
(***************************************************************************)
\* The greatest price typed.
MaxPrice == 1

\* What is typed in a text field: nothing, a space, a letter.
TextInputs == { <<>>, <<" ">>, <<"A">> }
\* The value of the price field: empty, "-1", or a price; the number 0
\* the form starts with reads as "0".
PriceDigits == <<"0","1","2","3","4","5","6","7","8","9">>
PriceInputs ==
  { <<>>, <<"-","1">> } \cup { <<PriceDigits[n + 1]>> : n \in 0..MaxPrice }
\* The number JavaScript compares in value >= 0.
ToNumber(value) ==
  IF value = <<>> THEN 0
  ELSE IF Head(value) = "-" THEN 0 - ParseInt(Tail(value))
  ELSE ParseInt(value)
TextFields == {"title", "description", "examName", "subject"}

\* canGoNext()
canGoNext ==
  CASE currentStep = 1 ->
         /\ Trim(formData.title) # <<>>
         /\ Trim(formData.description) # <<>>
         /\ Trim(formData.examName) # <<>>
         /\ Trim(formData.subject) # <<>>
    [] currentStep = 2 -> formData.fileUrl # ""
    [] currentStep = 3 -> ToNumber(formData.questionsOnlyPrice) >= 0
    [] currentStep = 4 -> TRUE
    [] currentStep = 5 -> TRUE
    [] OTHER -> FALSE

\* The step after step without the skip of Step 4.
NextStepNoSkip(step, paperType) == step + 1
\* The step handleNext sets after step.
NextStep(step, paperType) ==
  IF step = 3 /\ paperType = "questions-only" THEN 5 ELSE step + 1
\* The step handlePrev sets before step.
PrevStep(step, paperType) ==
  IF step = 5 /\ paperType = "questions-only" THEN 3 ELSE step - 1

InitWizard ==
  /\ pc = "wizard"
  /\ currentStep = 1
  /\ isUploading = FALSE
  /\ formData = [title |-> <<>>, description |-> <<>>, examName |-> <<>>,
                 subject |-> <<>>, paperType |-> "questions-only",
                 fileUrl |-> "", questionsOnlyPrice |-> <<"0">>]
  /\ RouteIdle
  /\ CleanIdle
  /\ MetaIdle
  /\ CallIdle
  /\ MarksIdle
  /\ TimeIdle
  /\ PayIdle

\* A click on Next, which is rendered before step 5 and enabled when
\* canGoNext().
handleNext ==
  /\ pc = "wizard"
  /\ currentStep < 5 /\ canGoNext
  /\ currentStep' = NextStep(currentStep, formData.paperType)
  /\ UNCHANGED <<pc, isUploading, formData, routeVars, cleanVars, metaVars,
                 callVars, marksVars, timeVars, payVars>>

\* A click on Previous, which is enabled after step 1.
handlePrev ==
  /\ pc = "wizard"
  /\ currentStep > 1
  /\ currentStep' = PrevStep(currentStep, formData.paperType)
  /\ UNCHANGED <<pc, isUploading, formData, routeVars, cleanVars, metaVars,
                 callVars, marksVars, timeVars, payVars>>

\* A click on one of the two paper type buttons, which Step 1 renders.
SelectPaperType(paperType) ==
  /\ pc = "wizard"
  /\ currentStep = 1
  /\ formData' = [formData EXCEPT !.paperType = paperType]
  /\ UNCHANGED <<pc, currentStep, isUploading, routeVars, cleanVars,
                 metaVars, callVars, marksVars, timeVars, payVars>>

\* handleChange of a text field, which Step 1 renders.
ChangeText(name, value) ==
  /\ pc = "wizard"
  /\ currentStep = 1
  /\ formData' = [formData EXCEPT ![name] = value]
  /\ UNCHANGED <<pc, currentStep, isUploading, routeVars, cleanVars,
                 metaVars, callVars, marksVars, timeVars, payVars>>

\* handleChange of the questions-only price, which Step 3 renders.
ChangePrice(value) ==
  /\ pc = "wizard"
  /\ currentStep = 3
  /\ formData' = [formData EXCEPT !.questionsOnlyPrice = value]
  /\ UNCHANGED <<pc, currentStep, isUploading, routeVars, cleanVars,
                 metaVars, callVars, marksVars, timeVars, payVars>>

\* handleQuestionFileSelect up to its first await: a file is chosen or
\* dropped in Step 2.
SelectQuestionFile ==
  /\ pc = "wizard"
  /\ currentStep = 2
  /\ ~isUploading
  /\ isUploading' = TRUE
  /\ UNCHANGED <<pc, currentStep, formData, routeVars, cleanVars, metaVars,
                 callVars, marksVars, timeVars, payVars>>

\* handleQuestionFileSelect from the responses on: the file is uploaded
\* and the form holds its URL, whatever the step is by then.
QuestionFileUploaded ==
  /\ pc = "wizard"
  /\ isUploading
  /\ isUploading' = FALSE
  /\ formData' = [formData EXCEPT !.fileUrl = "url"]
  /\ UNCHANGED <<pc, currentStep, routeVars, cleanVars, metaVars,
                 callVars, marksVars, timeVars, payVars>>

\* handleQuestionFileSelect when the upload fails.
QuestionFileRejected ==
  /\ pc = "wizard"
  /\ isUploading
  /\ isUploading' = FALSE
  /\ UNCHANGED <<pc, currentStep, formData, routeVars, cleanVars, metaVars,
                 callVars, marksVars, timeVars, payVars>>

\* A click on "Remove and upload different file" in Step 2.
RemoveQuestionFile ==
  /\ pc = "wizard"
  /\ currentStep = 2
  /\ ~isUploading
  /\ formData.fileUrl # ""
  /\ formData' = [formData EXCEPT !.fileUrl = ""]
  /\ UNCHANGED <<pc, currentStep, isUploading, routeVars, cleanVars,
                 metaVars, callVars, marksVars, timeVars, payVars>>

NextWizard ==
  \/ handleNext
  \/ handlePrev
  \/ \E paperType \in {"questions-only", "with-solutions"} :
       SelectPaperType(paperType)
  \/ \E name \in TextFields, value \in TextInputs : ChangeText(name, value)
  \/ \E value \in PriceInputs : ChangePrice(value)
  \/ SelectQuestionFile
  \/ QuestionFileUploaded
  \/ QuestionFileRejected
  \/ RemoveQuestionFile

SpecWizard == InitWizard /\ [][NextWizard]_vars

\* C22: the step is always one of 1..5 and is 4 only while the paper type
\* is 'with-solutions'; with the paper type 'questions-only' the step
\* that follows 3 is 5 and the step that precedes 5 is 3.
C22_StepFourOnlyWithSolutions ==
  /\ [](pc = "wizard" =>
          /\ currentStep \in 1..5
          /\ currentStep = 4 => formData.paperType = "with-solutions")
  /\ [][pc = "wizard" /\ formData.paperType = "questions-only" =>
          /\ currentStep = 3 /\ currentStep' > currentStep => currentStep' = 5
          /\ currentStep = 5 /\ currentStep' < currentStep => currentStep' = 3]_vars
\* C22 happens: the paper type is 'questions-only' and the wizard is at
\* step 5, which Next reached from step 3.
C22_Witness ==
  /\ pc = "wizard"
  /\ formData.paperType = "questions-only"
  /\ currentStep = 5
  /\ formData.fileUrl = "url"

=============================================================================
